---- MODULE Spec2Model ----
(***************************************************************************)
(* Cross-source record reconciliation of the planning-data scripts:        *)
(*   IntegratedPlanningSystem (src/integrated_planning_system.py) and      *)
(*   OsloPlanningSystem       (src/oslo_planning_system.py).               *)
(*                                                                         *)
(* Python strings are sequences of one-character strings, so that lower(), *)
(* the regular expression \w+, substring containment, '_'.join and the     *)
(* decimal formatting of an f-string are computed and not assumed.         *)
(* Non-ASCII letters of the area names are transliterated (o for ø,        *)
(* u for ü).                                                               *)
(*                                                                         *)
(* A Python value is a record [t, s, n]: t is its type tag, s its text     *)
(* when it is a str, n its number when it is an int and its heap address   *)
(* when it is a list or a dict.  Lists and dicts live in heaps, so that    *)
(* two dicts sharing one list (dict.copy() is shallow) are modelled.       *)
(***************************************************************************)
EXTENDS Integers, Sequences, FiniteSets, TLC

VARIABLES
    krec,      \* SpecKey: the record handed to the key generators
    kplan,     \* SpecKey: outcome of generate_plan_key(krec), or NotRun
    koslo,     \* SpecKey: outcome of generate_oslo_key(krec), or NotRun
    khash,     \* SpecKey: the value hash() returned inside generate_oslo_key
    dheap,     \* the dicts of the process, by address
    lheap,     \* the lists of the process, by address
    mexisting, \* SpecMerge: address of the dict passed as existing
    mnew,      \* SpecMerge: address of the dict passed as new
    mfun,      \* SpecMerge: the merge function that ran ("none" before)
    mout,      \* SpecMerge: [ret, exc] of the call
    mpre,      \* SpecMerge: the heaps [dh, lh] as they were before the call
    system,    \* Spec: which system this process runs, "oslo" or "integrated"
    world,     \* Spec: what the collectors find outside: [origo, geonorge, docs],
               \* and how often the caller runs the integration: runs
    oslo_data, \* OsloPlanningSystem.oslo_data: the stored batches (addresses)
    integrated_data, \* IntegratedPlanningSystem.integrated_data, likewise
    hashes,    \* hash() of this process: the pairs [arg, val] it returned so far
    calls,     \* the handlers called so far, in order
    results,   \* per call: what its cross-reference returned, written out
               \* as it was on return, and the report if it made one
    cdoc,      \* SpecClassify: the PDF file handed to the classifier
    ccontent,  \* SpecClassify: what analyze_oslo_content returned, or NotClassified
    cpdf,      \* SpecClassify: what analyze_oslo_pdf returned, or NotClassified
    cbatch     \* SpecClassify: what process_oslo_pdf_documents returned, or NotClassified

keyVars == <<krec, kplan, koslo, khash>>

heapVars == <<dheap, lheap>>

mergeVars == <<mexisting, mnew, mfun, mout, mpre>>

driverVars == <<system, world, oslo_data, integrated_data, hashes, calls, results>>

classifyVars == <<cdoc, ccontent, cpdf, cbatch>>

vars == <<krec, kplan, koslo, khash, dheap, lheap, mexisting, mnew, mfun, mout, mpre,
          system, world, oslo_data, integrated_data, hashes, calls, results,
          cdoc, ccontent, cpdf, cbatch>>

----------------------------------------------------------------------------
(* Strings *)

S_unknown == <<"u", "n", "k", "n", "o", "w", "n">>
S_oslo == <<"o", "s", "l", "o">>
S_general == <<"g", "e", "n", "e", "r", "a", "l">>

M_Oslo == <<"O", "s", "l", "o">>
M_Unknown == <<"U","n","k","n","o","w","n">>
M_Bergen == <<"B", "e", "r", "g", "e", "n">>
P_OSL_001 == <<"O", "S", "L", "-", "0", "0", "1">>
P_uuid == <<"7", "c", "3", "f">>

T_regulering_sentrum == <<"R", "e", "g", "u", "l", "e", "r", "i", "n", "g", "s", "p", "l", "a", "n", " ", "S", "e", "n", "t", "r", "u", "m">>
T_regulering_frogner_park == <<"R", "e", "g", "u", "l", "e", "r", "i", "n", "g", "s", "p", "l", "a", "n", " ", "F", "r", "o", "g", "n", "e", "r", " ", "P", "a", "r", "k">>
T_frogner_park_plan == <<"F", "r", "o", "g", "n", "e", "r", " ", "P", "a", "r", "k", " ", "P", "l", "a", "n">>
T_hyphenated == <<"V", "e", "s", "t", "r", "e", "-", "A", "k", "e", "r", " ", "p", "l", "a", "n", " ", "d", "e", "l", " ", "t", "o">>
T_dashes == <<"-", "-", "-">>
T_sentrum_nord == <<"P", "l", "a", "n", " ", "f", "o", "r", " ", "S", "e", "n", "t", "r", "u", "m", " ", "n", "o", "r", "d">>
T_sentrum_syd == <<"P", "l", "a", "n", " ", "f", "o", "r", " ", "S", "e", "n", "t", "r", "u", "m", " ", "s", "y", "d">>
T_eiendomsdata == <<"E", "i", "e", "n", "d", "o", "m", "s", "d", "a", "t", "a", " ", "O", "s", "l", "o">>
D_origo == <<"A", "l", "l", "e", " ", "r", "e", "g", "u", "l", "e", "r", "i", "n", "g", "s", "p", "l", "a", "n", "e", "r", " ", "i", " ", "O", "s", "l", "o", " ", "k", "o", "m", "m", "u", "n", "e">>
D_abstract == <<"S", "e", "n", "t", "r", "u", "m", "s", "p", "l", "a", "n", "e", "n">>
T_endring == <<"E", "n", "d", "r", "i", "n", "g", " ", "a", "v", " ", "O", "S", "L", "-", "0", "0", "1">>
T_byggetillatelser == <<"B", "y", "g", "g", "e", "t", "i", "l", "l", "a", "t", "e", "l", "s", "e", "r", " ", "O", "s", "l", "o">>

SRC_geonorge == <<"g", "e", "o", "n", "o", "r", "g", "e">>
SRC_oslo_origo == <<"o", "s", "l", "o", "_", "o", "r", "i", "g", "o">>
SRC_oslo_pdf == <<"o", "s", "l", "o", "_", "p", "d", "f">>
SRC_geonorge_oslo == <<"g", "e", "o", "n", "o", "r", "g", "e", "_", "o", "s", "l", "o">>
SRC_pdf_analysis == <<"p", "d", "f", "_", "a", "n", "a", "l", "y", "s", "i", "s">>

\* self.oslo_keywords['oslo_spesifikk']
oslo_spesifikk ==
    << <<"o","s","l","o"," ","k","o","m","m","u","n","e">>, <<"o","s","l","o"," ","s">>, <<"b","j","o","r","v","i","k","a">>, <<"b","a","r","c","o","d","e">>, <<"t","j","u","v","h","o","l","m","e","n">>, <<"a","k","e","r"," ","b","r","y","g","g","e">>,
       <<"v","u","l","k","a","n">>, <<"g","r","o","n","l","a","n","d">>, <<"t","o","y","e","n">>, <<"k","a","m","p","e","n">>, <<"v","a","l","e","r","e","n","g","a">>, <<"m","a","j","o","r","s","t","u","e","n">> >>

\* self.oslo_keywords['planterminologi']
planterminologi ==
    << <<"o","s","l","o","_","k","o","m","m","u","n","e","p","l","a","n">>, <<"o","s","l","o","_","r","e","g","u","l","e","r","i","n","g">>, <<"p","b","e","_","o","s","l","o">>, <<"p","l","a","n","_","o","g","_","b","y","g","n","i","n","g","s","e","t","a","t","e","n">>,
       <<"o","s","l","o","_","p","l","a","n","s","t","r","a","t","e","g","i">> >>

X_frogner_og_sentrum == <<"F", "r", "o", "g", "n", "e", "r", " ", "o", "g", " ", "S", "e", "n", "t", "r", "u", "m">>
X_sentrum_plan == <<"S", "e", "n", "t", "r", "u", "m", " ", "p", "l", "a", "n">>
X_bergen_havn == <<"B", "e", "r", "g", "e", "n", " ", "h", "a", "v", "n">>
X_sentrum_twice == <<"S", "e", "n", "t", "r", "u", "m", " ", "o", "g", " ", "s", "e", "n", "t", "r", "u", "m">>
X_sentrum_upper == <<"S", "E", "N", "T", "R", "U", "M">>
X_sondre_nordstrand == <<"S", "o", "n", "d", "r", "e", " ", "N", "o", "r", "d", "s", "t", "r", "a", "n", "d", " ", "s", "k", "o", "l", "e">>
X_groruddalen == <<"G", "r", "o", "r", "u", "d", "d", "a", "l", "e", "n">>
X_pbe_oslo == <<"V", "e", "d", "t", "a", "k", " ", "i", " ", "P", "B", "E", "_", "O", "s", "l", "o">>
X_barcode == <<"B", "a", "r", "c", "o", "d", "e">>
F_a == <<"a", ".", "p", "d", "f">>
F_b == <<"b", ".", "p", "d", "f">>
F_c == <<"c", ".", "p", "d", "f">>
A_sentrum == <<"s", "e", "n", "t", "r", "u", "m">>
A_frogner == <<"f", "r", "o", "g", "n", "e", "r">>
\* self.oslo_keywords['områder']
Omrader ==
    << A_sentrum, <<"g","r","u","n","e","r","l","o","k","k","a">>, A_frogner, <<"g","a","m","l","e"," ","o","s","l","o">>,
       <<"s","t","."," ","h","a","n","s","h","a","u","g","e","n">>, <<"s","a","g","e","n","e">>, <<"u","l","l","e","r","n">>, <<"v","e","s","t","r","e"," ","a","k","e","r">>,
       <<"n","o","r","d","r","e"," ","a","k","e","r">>, <<"b","j","e","r","k","e">>, <<"g","r","o","r","u","d">>, <<"s","t","o","v","n","e","r">>,
       <<"a","l","n","a">>, <<"o","s","t","e","n","s","j","o">>, <<"n","o","r","d","s","t","r","a","n","d">>, <<"s","o","n","d","r","e"," ","n","o","r","d","s","t","r","a","n","d">> >>

UpperLetters ==
    << "A", "B", "C", "D", "E", "F", "G", "H", "I", "J", "K", "L", "M",
       "N", "O", "P", "Q", "R", "S", "T", "U", "V", "W", "X", "Y", "Z" >>

LowerLetters ==
    << "a", "b", "c", "d", "e", "f", "g", "h", "i", "j", "k", "l", "m",
       "n", "o", "p", "q", "r", "s", "t", "u", "v", "w", "x", "y", "z" >>

DigitChars == << "0", "1", "2", "3", "4", "5", "6", "7", "8", "9" >>

Range(f) == { f[i] : i \in DOMAIN f }

\* the characters the regular expression \w matches
WordChars == Range(UpperLetters) \cup Range(LowerLetters) \cup Range(DigitChars) \cup {"_"}

\* the characters str.split() splits at
SpaceChars == {" "}

\* str.lower() on one character
LowerChar(c) ==
    IF \E i \in DOMAIN UpperLetters : UpperLetters[i] = c
    THEN LowerLetters[CHOOSE i \in DOMAIN UpperLetters : UpperLetters[i] = c]
    ELSE c

\* str.lower()
Lower(s) == [i \in DOMAIN s |-> LowerChar(s[i])]

\* a in s, for two str
IsSubstring(a, s) ==
    \E i \in 0..(Len(s) - Len(a)) : SubSeq(s, i + 1, i + Len(a)) = a

\* The maximal runs of characters satisfying inRun, left to right: the scan
\* of re.findall(r'\w+', s) when inRun is "is a word character".
RECURSIVE ScanRuns(_, _, _, _)
ScanRuns(s, i, cur, wordset) ==
    IF i > Len(s)
    THEN IF cur = <<>> THEN <<>> ELSE <<cur>>
    ELSE IF s[i] \in wordset
         THEN ScanRuns(s, i + 1, Append(cur, s[i]), wordset)
         ELSE IF cur = <<>>
              THEN ScanRuns(s, i + 1, <<>>, wordset)
              ELSE <<cur>> \o ScanRuns(s, i + 1, <<>>, wordset)

\* re.findall(r'\w+', s)
FindAllWords(s) == ScanRuns(s, 1, <<>>, WordChars)

\* xs[:n]
Take(xs, n) == SubSeq(xs, 1, IF Len(xs) < n THEN Len(xs) ELSE n)

\* sep.join(parts)
RECURSIVE Join(_, _)
Join(parts, sep) ==
    IF parts = <<>> THEN <<>>
    ELSE IF Len(parts) = 1 THEN parts[1]
    ELSE parts[1] \o sep \o Join(Tail(parts), sep)

\* str(n) for an int n >= 0
RECURSIVE DecimalDigits(_)
DecimalDigits(n) ==
    IF n < 10 THEN <<DigitChars[n + 1]>>
    ELSE DecimalDigits(n \div 10) \o <<DigitChars[(n % 10) + 1]>>

\* str(n) for any int n
IntToStr(n) == IF n < 0 THEN <<"-">> \o DecimalDigits(0 - n) ELSE DecimalDigits(n)

----------------------------------------------------------------------------
(* Python values *)

Absent    == [t |-> "absent", s |-> <<>>, n |-> 0]   \* the key is not in the dict
PyNone      == [t |-> "none",   s |-> <<>>, n |-> 0]
PyStr(x)    == [t |-> "str",    s |-> x,    n |-> 0]
PyInt(k)    == [t |-> "int",    s |-> <<>>, n |-> k]
PyList(a) == [t |-> "list",   s |-> <<>>, n |-> a]
PyDict(a) == [t |-> "dict",   s |-> <<>>, n |-> a]

\* the keys a dict of the model can hold
Fields ==
    { "source", "plan_id", "title", "municipality", "description", "file_path",
      "keywords", "oslo_areas", "oslo_terms", "oslo_relevance_score",
      "oslo_relevance", "oslo_sources", "sources", "pdf_analysis" }

\* the dict with the given items (a record) and no other key
Dict(items) == [f \in Fields |-> IF f \in DOMAIN items THEN items[f] ELSE Absent]

\* d.get(k, default)
Get(d, k, default) == IF d[k].t = "absent" THEN default ELSE d[k]

\* the truth value of v; lh holds the lists
Truthy(v, lh) ==
    CASE v.t = "str"  -> v.s # <<>>
      [] v.t = "int"  -> v.n # 0
      [] v.t = "list" -> lh[v.n] # <<>>
      [] v.t = "dict" -> TRUE
      [] OTHER        -> FALSE

\* the outcome of a call: the returned str, or the exception raised
Returned(key) == [exc |-> "",    key |-> key]
Raised(e)     == [exc |-> e,     key |-> <<>>]
NotRun        == [exc |-> "not run", key |-> <<>>]

----------------------------------------------------------------------------
(* hash() *)

\* the modulus both key generators reduce hash() by
HashMod == 1000

\* the largest of the small values hash() is drawn from
MaxHash == 1

\* hash() of a str is fixed within one process and differs between
\* processes (hash randomisation): any function is a possible outcome.  The
\* values it is drawn from here: 0..MaxHash, and one that is congruent to
\* MaxHash modulo HashMod.
HashVals == (0..MaxHash) \cup {HashMod + MaxHash}

\* the keys in the order the dict literals of the collectors write them
FieldSeq ==
    << "source", "plan_id", "title", "municipality", "description", "file_path",
       "keywords", "oslo_areas", "oslo_terms", "oslo_relevance_score",
       "oslo_relevance", "oslo_sources", "sources", "pdf_analysis" >>

\* what hash() is applied to: a str s, or the str() of a dict, which is
\* its items written out in order
HashOfStr(x)   == [s |-> x,    d |-> <<>>]
HashOfDict(dd) == [s |-> <<>>, d |-> [i \in DOMAIN FieldSeq |-> dd[FieldSeq[i]]]]

----------------------------------------------------------------------------
(* The heap: dicts and lists are objects, values refer to them by address *)

\* A value written out: a list with its elements in l, a dict with its
\* written-out items as the one element of l.  What str(), json.dump and ==
\* see of a value.
RECURSIVE DeepVal(_, _, _)
RECURSIVE DeepDict(_, _, _)
DeepVal(v, dh, lh) ==
    CASE v.t = "list" -> [t |-> "list", s |-> <<>>, n |-> 0, l |-> lh[v.n]]
      [] v.t = "dict" -> [t |-> "dict", s |-> <<>>, n |-> 0, l |-> <<DeepDict(v.n, dh, lh)>>]
      [] OTHER        -> [t |-> v.t, s |-> v.s, n |-> v.n, l |-> <<>>]

DeepDict(a, dh, lh) == [f \in Fields |-> DeepVal(dh[a][f], dh, lh)]

\* the dict value d written out
DeepItems(d, dh, lh) == [f \in Fields |-> DeepVal(d[f], dh, lh)]

\* written-out values
DAbsent   == [t |-> "absent", s |-> <<>>, n |-> 0, l |-> <<>>]
DNone     == [t |-> "none",   s |-> <<>>, n |-> 0, l |-> <<>>]
DStr(x)   == [t |-> "str",    s |-> x,    n |-> 0, l |-> <<>>]
DInt(k)   == [t |-> "int",    s |-> <<>>, n |-> k, l |-> <<>>]
DList(xs) == [t |-> "list",   s |-> <<>>, n |-> 0, l |-> xs]

\* the written-out dict with the given items and no other key
DDict(items) == [f \in Fields |-> IF f \in DOMAIN items THEN items[f] ELSE DAbsent]

\* Evaluating a dict literal (no nested dict): every list-valued item is a
\* new list, the dict is a new dict.  The state after it: the heaps and the
\* address of the dict.
RECURSIVE AllocItems(_, _, _, _)
AllocItems(deep, i, d, lh) ==
    IF i > Len(FieldSeq) THEN [d |-> d, lh |-> lh]
    ELSE LET f == FieldSeq[i]
             v == deep[f]
         IN  IF v.t = "list"
             THEN AllocItems(deep, i + 1, [d EXCEPT ![f] = PyList(Len(lh) + 1)],
                             Append(lh, v.l))
             ELSE AllocItems(deep, i + 1, [d EXCEPT ![f] = [t |-> v.t, s |-> v.s, n |-> v.n]],
                             lh)

AllocDict(deep, dh, lh) ==
    LET r == AllocItems(deep, 1, [f \in Fields |-> Absent], lh)
    IN  [dh |-> Append(dh, r.d), lh |-> r.lh, ret |-> Len(dh) + 1]

\* x in xs, for a list of str (None is in no such list)
InList(v, xs) == v.t = "str" /\ \E i \in DOMAIN xs : xs[i] = v.s

Max(a, b) == IF a >= b THEN a ELSE b

----------------------------------------------------------------------------
(* Merge *)

\* MergeSources without the append of new's source
MergeSources_keep(existingDict, newDict, srcKey, lh) ==
    LET create == existingDict[srcKey].t = "absent"
    IN  [ m  |-> IF create THEN [existingDict EXCEPT ![srcKey] = PyList(Len(lh) + 1)]
                 ELSE existingDict,
          lh |-> IF create
                 THEN Append(lh, <<Get(existingDict, "source", PyStr(S_unknown)).s>>)
                 ELSE lh ]

\* MergeSources with new's source appended whether or not it is in the list
MergeSources_always(existingDict, newDict, srcKey, lh) ==
    LET create == existingDict[srcKey].t = "absent"
        lh1    == IF create
                  THEN Append(lh, <<Get(existingDict, "source", PyStr(S_unknown)).s>>)
                  ELSE lh
        m1     == IF create THEN [existingDict EXCEPT ![srcKey] = PyList(Len(lh) + 1)]
                  ELSE existingDict
    IN  [ m  |-> m1,
          lh |-> [lh1 EXCEPT ![m1[srcKey].n] =
                     Append(@, Get(newDict, "source", PyStr(S_unknown)).s)] ]

\* the sources list both merge functions maintain under the key srcKey:
\* created from existing's source when merged has none, then new's source
\* appended unless it is in the list.  st is [m, lh]: the merged dict being
\* built and the list heap.
MergeSources(existingDict, newDict, srcKey, lh) ==
    LET m0     == existingDict          \* merged = existing.copy()
        create == m0[srcKey].t = "absent"
        lh1    == IF create
                  THEN Append(lh, <<Get(existingDict, "source", PyStr(S_unknown)).s>>)
                  ELSE lh
        m1     == IF create THEN [m0 EXCEPT ![srcKey] = PyList(Len(lh) + 1)] ELSE m0
        a      == m1[srcKey].n
        lh2    == IF ~InList(Get(newDict, "source", PyNone), lh1[a])
                  THEN [lh1 EXCEPT ![a] = Append(@, Get(newDict, "source", PyStr(S_unknown)).s)]
                  ELSE lh1
    IN  [m |-> m1, lh |-> lh2]

\* IntegratedPlanningSystem.merge_plan_data(existing, new), on the heaps
\* dh, lh: the heaps after the call and the address of the returned dict
merge_plan_data(existing, new, dh, lh) ==
    LET Finish(st) ==
            [ dh  |-> Append(dh, [f \in Fields |->
                         IF /\ f # "source"
                            /\ Truthy(dh[new][f], st.lh)
                            /\ (st.m[f].t = "absent" \/ ~Truthy(st.m[f], st.lh))
                         THEN dh[new][f]
                         ELSE st.m[f]]),
              lh  |-> st.lh,
              ret |-> Len(dh) + 1,
              exc |-> "" ]
    IN  Finish(MergeSources(dh[existing], dh[new], "sources", lh))

\* oslo_fields of merge_oslo_data
oslo_fields == << "oslo_areas", "oslo_terms", "oslo_relevance_score" >>

\* one round of the loop over oslo_fields; st is [m, lh, exc]
MergeOsloField(st, field, newDict) ==
    LET nv == newDict[field]
        mv == st.m[field]
    IN  IF st.exc # "" THEN st
        ELSE IF ~(nv.t # "absent" /\ Truthy(nv, st.lh)) THEN st
        ELSE IF mv.t = "absent" THEN [st EXCEPT !.m[field] = nv]
        ELSE IF mv.t = "list"
             THEN IF nv.t = "list"
                  THEN [st EXCEPT !.lh[mv.n] = @ \o st.lh[nv.n]]
                  ELSE IF nv.t = "str"
                  THEN [st EXCEPT !.lh[mv.n] = @ \o [i \in 1..Len(nv.s) |-> <<nv.s[i]>>]]
                  ELSE [st EXCEPT !.exc = "TypeError"]
        ELSE IF mv.t = "int"
             THEN IF nv.t = "int"
                  THEN [st EXCEPT !.m[field] = PyInt(Max(mv.n, nv.n))]
                  ELSE [st EXCEPT !.exc = "TypeError"]
        ELSE st

\* OsloPlanningSystem.merge_oslo_data(existing, new), on the heaps dh, lh
merge_oslo_data(existing, new, dh, lh) ==
    LET Start(s0) == [m |-> s0.m, lh |-> s0.lh, exc |-> ""]
        Finish(s3) ==
            IF s3.exc = ""
            THEN [dh |-> Append(dh, s3.m), lh |-> s3.lh, ret |-> Len(dh) + 1, exc |-> ""]
            ELSE [dh |-> dh, lh |-> s3.lh, ret |-> 0, exc |-> s3.exc]
    IN  Finish(MergeOsloField(
               MergeOsloField(
               MergeOsloField(Start(MergeSources(dh[existing], dh[new], "oslo_sources", lh)),
                              oslo_fields[1], dh[new]),
                              oslo_fields[2], dh[new]),
                              oslo_fields[3], dh[new]))

----------------------------------------------------------------------------
(* Key generators *)

\* s.split(): the maximal runs of characters that are not whitespace
SplitWhitespace(s) == ScanRuns(s, 1, <<>>, Range(s) \ SpaceChars)

\* generate_plan_key with title.split() in the place of re.findall(r'\w+', title)
generate_plan_key_split(plan) ==
    LET municipality == Get(plan, "municipality", PyStr(S_unknown))
        title        == Get(plan, "title", PyStr(<<>>))
        plan_id      == Get(plan, "plan_id", PyStr(<<>>))
    IN  IF municipality.t # "str" THEN Raised("AttributeError")
        ELSE IF title.t # "str" THEN Raised("AttributeError")
        ELSE IF Truthy(plan_id, <<>>)
             THEN IF plan_id.t # "str" THEN Raised("TypeError")
                  ELSE Returned(Join(<<Lower(municipality.s), plan_id.s>>, <<"_">>))
             ELSE Returned(Join(<<Lower(municipality.s)>>
                                \o Take(SplitWhitespace(Lower(title.s)), 3), <<"_">>))

\* generate_plan_key with the municipality alone as the key
generate_plan_key_municipality(plan) ==
    LET municipality == Get(plan, "municipality", PyStr(S_unknown))
        title        == Get(plan, "title", PyStr(<<>>))
    IN  IF municipality.t # "str" \/ title.t # "str" THEN Raised("AttributeError")
        ELSE Returned(Lower(municipality.s))

\* IntegratedPlanningSystem.generate_plan_key
generate_plan_key(plan) ==
    LET municipality == Get(plan, "municipality", PyStr(S_unknown))
        title        == Get(plan, "title", PyStr(<<>>))
        plan_id      == Get(plan, "plan_id", PyStr(<<>>))
    IN  IF municipality.t # "str" THEN Raised("AttributeError")
        ELSE IF title.t # "str" THEN Raised("AttributeError")
        ELSE IF Truthy(plan_id, <<>>)
             THEN IF plan_id.t # "str" THEN Raised("TypeError")
                  ELSE Returned(Join(<<Lower(municipality.s), plan_id.s>>, <<"_">>))
             ELSE Returned(Join(<<Lower(municipality.s)>>
                                \o Take(FindAllWords(Lower(title.s)), 3), <<"_">>))

\* the first area of oslo_keywords['områder'] contained in title, 0 if none
FirstAreaIn(title) ==
    IF \E i \in DOMAIN Omrader : IsSubstring(Omrader[i], title)
    THEN CHOOSE i \in DOMAIN Omrader :
            /\ IsSubstring(Omrader[i], title)
            /\ \A j \in 1..(i - 1) : ~IsSubstring(Omrader[j], title)
    ELSE 0

\* f"{plan_id}" for a str or an int
Format(v) == IF v.t = "int" THEN IntToStr(v.n) ELSE v.s

\* what generate_oslo_key(item) applies hash() to; written is str(item),
\* the dict written out.  The empty set when it does not call hash().
OsloKeyHashes(item, written) ==
    LET plan_id == Get(item, "plan_id", PyStr(<<>>))
        rawtitle == Get(item, "title", PyStr(<<>>))
    IN  IF rawtitle.t # "str" \/ Truthy(plan_id, <<>>) THEN {}
        ELSE IF rawtitle.s # <<>> /\ FirstAreaIn(Lower(rawtitle.s)) # 0
             THEN {HashOfStr(Lower(rawtitle.s))}
             ELSE {HashOfDict(written)}

\* OsloPlanningSystem.generate_oslo_key(item); written is str(item) and h
\* is hash() in this process
generate_oslo_key(item, written, h) ==
    LET plan_id == Get(item, "plan_id", PyStr(<<>>))
        rawtitle == Get(item, "title", PyStr(<<>>))
    IN  IF rawtitle.t # "str" THEN Raised("AttributeError")
        ELSE LET title == Lower(rawtitle.s)
             IN  IF Truthy(plan_id, <<>>)
                 THEN Returned(S_oslo \o <<"_">> \o Format(plan_id))
                 ELSE IF title # <<>> /\ FirstAreaIn(title) # 0
                      THEN Returned(S_oslo \o <<"_">> \o Omrader[FirstAreaIn(title)]
                                    \o <<"_">> \o IntToStr(h[HashOfStr(title)] % HashMod))
                      ELSE Returned(S_oslo \o <<"_">> \o S_general \o <<"_">>
                                    \o IntToStr(h[HashOfDict(written)] % HashMod))

----------------------------------------------------------------------------
(* SpecKey: the key generators applied to one record *)

KeyMunicipalities == { Absent, PyNone, PyStr(<<>>), PyStr(M_Oslo), PyStr(S_oslo), PyStr(M_Bergen) }

KeyTitles ==
    { Absent, PyNone, PyStr(<<>>), PyStr(T_regulering_sentrum),
      PyStr(T_regulering_frogner_park), PyStr(T_frogner_park_plan),
      PyStr(T_hyphenated), PyStr(T_dashes), PyStr(T_sentrum_nord), PyStr(T_sentrum_syd),
      PyStr(X_sentrum_upper), PyStr(X_sondre_nordstrand) }

KeyPlanIds ==
    { Absent, PyNone, PyStr(<<>>), PyStr(P_OSL_001), PyStr(A_sentrum), PyInt(0), PyInt(5) }

\* the variables of a specification that does not use them
KeyIdle ==
    /\ krec = Dict([source |-> Absent])
    /\ kplan = NotRun
    /\ koslo = NotRun
    /\ khash = 0

MergeIdle ==
    /\ mexisting = 0
    /\ mnew = 0
    /\ mfun = "none"
    /\ mout = [ret |-> 0, exc |-> ""]
    /\ mpre = [dh |-> <<>>, lh |-> <<>>]

\* the classifier has not run / what it returned
NotClassified == [done |-> FALSE]
Classified(r) == [done |-> TRUE, ret |-> r]

ClassifyIdle ==
    /\ cdoc = [path |-> <<>>, text |-> <<>>, plan_id |-> DNone]
    /\ ccontent = NotClassified
    /\ cpdf = NotClassified
    /\ cbatch = NotClassified

HeapIdle ==
    /\ dheap = <<>>
    /\ lheap = <<>>

DriverIdle ==
    /\ system = "none"
    /\ world = [origo |-> <<>>, geonorge |-> <<>>, docs |-> <<>>, runs |-> 0]
    /\ oslo_data = [origo_datasets |-> <<>>, reguleringsplaner |-> <<>>, pdf_documents |-> <<>>]
    /\ integrated_data = [regulatory_plans |-> <<>>, pdf_analyses |-> <<>>]
    /\ hashes = {}
    /\ calls = <<>>
    /\ results = <<>>

InitKey ==
    /\ ClassifyIdle
    /\ HeapIdle
    /\ MergeIdle
    /\ DriverIdle
    /\ \E m \in KeyMunicipalities, ti \in KeyTitles, p \in KeyPlanIds :
          krec = Dict([municipality |-> m, title |-> ti, plan_id |-> p])
    /\ kplan = NotRun
    /\ koslo = NotRun
    /\ khash = 0

GeneratePlanKey ==
    /\ kplan = NotRun
    /\ kplan' = generate_plan_key(krec)
    /\ UNCHANGED <<krec, koslo, khash, heapVars, mergeVars, driverVars, classifyVars>>

GenerateOsloKey ==
    /\ koslo = NotRun
    /\ LET written == DeepItems(krec, <<>>, <<>>)
       IN  \E h \in [OsloKeyHashes(krec, written) -> HashVals] :
             /\ khash' = (IF DOMAIN h = {} THEN 0 ELSE h[CHOOSE x \in DOMAIN h : TRUE])
             /\ koslo' = generate_oslo_key(krec, written, h)
    /\ UNCHANGED <<krec, kplan, heapVars, mergeVars, driverVars, classifyVars>>

NextKey == GeneratePlanKey \/ GenerateOsloKey

SpecKey == InitKey /\ [][NextKey]_vars

----------------------------------------------------------------------------
(* SpecMerge: one call of a merge function on two records *)

MergeSourceTags == { DAbsent, DStr(SRC_geonorge), DStr(SRC_oslo_origo) }

MergeScalars == { DAbsent, DStr(<<>>), DStr(M_Oslo), DStr(M_Bergen) }

MergeLists == { DAbsent, DList(<<>>), DList(<<A_sentrum>>), DList(<<A_frogner, A_sentrum>>) }

MergeScores == { DAbsent, DInt(0), DInt(3), DInt(5) }

\* a raw record: a source tag, a scalar attribute, a list-valued attribute
\* and a number
MergeRecords ==
    { DDict([source |-> src, municipality |-> m, oslo_areas |-> l,
             oslo_relevance_score |-> sc]) :
        src \in MergeSourceTags, m \in MergeScalars, l \in MergeLists, sc \in MergeScores }

\* rec as an earlier merge left it: with the sources lists
AlreadyMerged(rec) ==
    LET srcs == DList(<<(IF rec["source"].t = "absent" THEN S_unknown ELSE rec["source"].s),
                        SRC_oslo_pdf>>)
    IN  [rec EXCEPT !["sources"] = srcs, !["oslo_sources"] = srcs]

InitMerge ==
    /\ ClassifyIdle
    /\ KeyIdle
    /\ DriverIdle
    /\ mfun = "none"
    /\ mout = [ret |-> 0, exc |-> ""]
    /\ \E de \in MergeRecords, prior \in BOOLEAN :
         LET e  == IF prior THEN AlreadyMerged(de) ELSE de
             a1 == AllocDict(e, <<>>, <<>>)
         IN  \/ \* new is the very dict that is existing
                /\ dheap = a1.dh
                /\ lheap = a1.lh
                /\ mexisting = 1
                /\ mnew = 1
             \/ \* new is another dict
                \E dn \in MergeRecords :
                  LET a2 == AllocDict(dn, a1.dh, a1.lh)
                  IN  /\ dheap = a2.dh
                      /\ lheap = a2.lh
                      /\ mexisting = 1
                      /\ mnew = 2
    /\ mpre = [dh |-> dheap, lh |-> lheap]

MergePlan ==
    /\ mfun = "none"
    /\ LET r == merge_plan_data(mexisting, mnew, dheap, lheap)
       IN  /\ dheap' = r.dh
           /\ lheap' = r.lh
           /\ mout' = [ret |-> r.ret, exc |-> r.exc]
    /\ mfun' = "plan"
    /\ UNCHANGED <<mexisting, mnew, mpre, keyVars, driverVars, classifyVars>>

MergeOslo ==
    /\ mfun = "none"
    /\ LET r == merge_oslo_data(mexisting, mnew, dheap, lheap)
       IN  /\ dheap' = r.dh
           /\ lheap' = r.lh
           /\ mout' = [ret |-> r.ret, exc |-> r.exc]
    /\ mfun' = "oslo"
    /\ UNCHANGED <<mexisting, mnew, mpre, keyVars, driverVars, classifyVars>>

NextMerge == MergePlan \/ MergeOslo

SpecMerge == InitMerge /\ [][NextMerge]_vars

----------------------------------------------------------------------------
(* OsloPlanningSystem: classifier, collectors, driver *)

\* FoundIn with a name found only where it is a whole word of the text
FoundIn_words(xs, text) ==
    SelectSeq(xs, LAMBDA a : a \in Range(FindAllWords(text)))

\* the elements of xs that are contained in text, in the order of xs
RECURSIVE FoundIn(_, _)
FoundIn(xs, text) ==
    IF xs = <<>> THEN <<>>
    ELSE IF IsSubstring(Head(xs), text)
         THEN <<Head(xs)>> \o FoundIn(Tail(xs), text)
         ELSE FoundIn(Tail(xs), text)

\* OsloPlanningSystem.analyze_oslo_content(text); found_plan_id is what
\* extract_plan_id(text) finds in the text (None or a str)
analyze_oslo_content(text, found_plan_id) ==
    LET text_lower    == Lower(text)
        found_areas   == FoundIn(Omrader, text_lower)
        found_terms   == FoundIn(oslo_spesifikk, text_lower)
        found_plan    == FoundIn(planterminologi, text_lower)
        oslo_mentions == 2 * Len(found_areas) + Len(found_terms) + 3 * Len(found_plan)
    IN  [ oslo_relevance_score |-> oslo_mentions,
          oslo_areas           |-> found_areas,
          oslo_terms           |-> found_terms \o found_plan,
          plan_id              |-> IF oslo_mentions > 0 THEN found_plan_id ELSE DNone ]

\* OsloPlanningSystem.process_oslo_pdf_documents: the records of the PDF
\* files docs, a file being [path, text, plan_id]
RECURSIVE process_oslo_pdf_documents(_)
process_oslo_pdf_documents(docs) ==
    IF docs = <<>> THEN <<>>
    ELSE LET doc      == Head(docs)
             analysis == analyze_oslo_content(doc.text, doc.plan_id)
         IN  IF doc.text # <<>> /\ analysis.oslo_relevance_score > 0
             THEN << DDict([ source         |-> DStr(SRC_oslo_pdf),
                             file_path      |-> DStr(doc.path),
                             oslo_relevance |-> DInt(analysis.oslo_relevance_score),
                             plan_id        |-> analysis.plan_id,
                             oslo_areas     |-> DList(analysis.oslo_areas) ]) >>
                  \o process_oslo_pdf_documents(Tail(docs))
             ELSE process_oslo_pdf_documents(Tail(docs))

\* the dicts of a batch are new objects: the heaps after building them and
\* their addresses
RECURSIVE AllocBatch(_, _, _)
AllocBatch(batch, dh, lh) ==
    IF batch = <<>> THEN [dh |-> dh, lh |-> lh, ret |-> <<>>]
    ELSE LET a    == AllocDict(Head(batch), dh, lh)
             rest == AllocBatch(Tail(batch), a.dh, a.lh)
         IN  [dh |-> rest.dh, lh |-> rest.lh, ret |-> <<a.ret>> \o rest.ret]

\* all_oslo_data of cross_reference_oslo_data
AllOsloData(data) ==
    data.origo_datasets \o data.reguleringsplaner \o data.pdf_documents

\* what one pass over the items applies hash() to
OsloHashesNeeded(items, dh, lh) ==
    UNION { OsloKeyHashes(dh[items[i]], DeepDict(items[i], dh, lh)) : i \in DOMAIN items }

\* KeyIndex with no key ever found in the dict
KeyIndex_never(unified, key) == 0

\* the position of key in the dict oslo_unified (a sequence of [key, addr],
\* in insertion order), 0 if it is not a key of it
KeyIndex(unified, key) ==
    IF \E j \in DOMAIN unified : unified[j].key = key
    THEN CHOOSE j \in DOMAIN unified : unified[j].key = key
    ELSE 0

\* one round of the loop of cross_reference_oslo_data; st is
\* [dh, lh, unified, exc]
OsloFoldItem(st, item, h) ==
    LET Merged(j, r) ==
            IF r.exc # ""
            THEN [st EXCEPT !.lh = r.lh, !.exc = r.exc]
            ELSE [st EXCEPT !.dh = r.dh, !.lh = r.lh, !.unified[j].addr = r.ret]
        Stored(k, j) ==
            IF j # 0
            THEN Merged(j, merge_oslo_data(st.unified[j].addr, item, st.dh, st.lh))
            ELSE [st EXCEPT !.unified = Append(@, [key |-> k.key, addr |-> item])]
        Keyed(k) ==
            IF k.exc # "" THEN [st EXCEPT !.exc = k.exc]
            ELSE Stored(k, KeyIndex(st.unified, k.key))
    IN  IF st.exc # "" THEN st
        ELSE Keyed(generate_oslo_key(st.dh[item], DeepDict(item, st.dh, st.lh), h))

RECURSIVE OsloFold(_, _, _, _)
OsloFold(st, items, i, h) ==
    IF i > Len(items) THEN st
    ELSE OsloFold(OsloFoldItem(st, items[i], h), items, i + 1, h)

\* the set of the elements of the lists xs[1], xs[2], ...
RECURSIVE ElementsOf(_)
ElementsOf(xs) == IF xs = <<>> THEN {} ELSE Range(Head(xs)) \cup ElementsOf(Tail(xs))

\* the elements set.update(v) adds for a value v
UpdateElements(v, lh) ==
    IF v.t = "list" THEN Range(lh[v.n])
    ELSE { <<v.s[i]>> : i \in DOMAIN v.s }

\* assess_oslo_coverage with the number of records that name areas as the total
assess_oslo_coverage_items(unified, dh, lh) ==
    LET with    == { j \in DOMAIN unified : dh[unified[j].addr]["oslo_areas"].t # "absent" }
        covered == UNION { UpdateElements(dh[unified[j].addr]["oslo_areas"], lh) : j \in with }
    IN  IF \E j \in with : dh[unified[j].addr]["oslo_areas"].t \notin {"list", "str"}
        THEN [exc |-> "TypeError"]
        ELSE [ exc                 |-> "",
               covered_oslo_areas  |-> Cardinality(covered),
               total_oslo_areas    |-> Cardinality(with),
               coverage_percentage |-> [num |-> Cardinality(covered) * 100,
                                        den |-> Cardinality(with)],
               missing_areas       |-> SelectSeq(Omrader, LAMBDA a : a \notin covered) ]

\* OsloPlanningSystem.assess_oslo_coverage(unified_data)
assess_oslo_coverage(unified, dh, lh) ==
    LET with    == { j \in DOMAIN unified : dh[unified[j].addr]["oslo_areas"].t # "absent" }
        covered == UNION { UpdateElements(dh[unified[j].addr]["oslo_areas"], lh) : j \in with }
    IN  IF \E j \in with : dh[unified[j].addr]["oslo_areas"].t \notin {"list", "str"}
        THEN [exc |-> "TypeError"]
        ELSE [ exc                 |-> "",
               covered_oslo_areas  |-> Cardinality(covered),
               total_oslo_areas    |-> Len(Omrader),
               \* (covered / total) * 100, as a fraction
               coverage_percentage |-> [num |-> Cardinality(covered) * 100, den |-> Len(Omrader)],
               missing_areas       |-> SelectSeq(Omrader, LAMBDA a : a \notin covered) ]

\* OsloPlanningSystem.get_oslo_source_summary
get_oslo_source_summary(data) ==
    [ origo_datasets     |-> Len(data.origo_datasets),
      geonorge_oslo      |-> Len(data.reguleringsplaner),
      oslo_pdfs          |-> Len(data.pdf_documents),
      total_oslo_sources |-> Len(data.origo_datasets) + Len(data.reguleringsplaner)
                             + Len(data.pdf_documents) ]

\* what a call that raised leaves to its caller
RaisedResult(who, e) == [fn |-> who, exc |-> e]

\* OsloPlanningSystem.cross_reference_oslo_data on the stored batches data:
\* the heaps after it, and its return value written out
cross_reference_oslo_data(data, dh, lh, h) ==
    LET Result(st, cov) ==
            [ dh  |-> st.dh,
              lh  |-> st.lh,
              ret |-> IF st.exc # "" THEN RaisedResult("cross_reference_oslo_data", st.exc)
                      ELSE IF cov.exc # ""
                      THEN RaisedResult("cross_reference_oslo_data", cov.exc)
                      ELSE [ fn                |-> "cross_reference_oslo_data",
                             exc               |-> "",
                             keys              |-> [j \in DOMAIN st.unified |->
                                                      st.unified[j].key],
                             oslo_unified_data |-> [j \in DOMAIN st.unified |->
                                                      DeepDict(st.unified[j].addr, st.dh, st.lh)],
                             total_oslo_items  |-> Len(st.unified),
                             source_breakdown  |-> get_oslo_source_summary(data),
                             oslo_coverage     |-> cov ] ]
        Folded(st) == Result(st, assess_oslo_coverage(st.unified, st.dh, st.lh))
    IN  Folded(OsloFold([dh |-> dh, lh |-> lh, unified |-> <<>>, exc |-> ""],
                        AllOsloData(data), 1, h))

----------------------------------------------------------------------------
(* SpecClassify: the relevance classifier applied to one PDF file *)

\* analyze_oslo_pdf with every file that has text marked relevant
analyze_oslo_pdf_any(doc) ==
    IF doc.text = <<>>
    THEN [error |-> TRUE, oslo_relevant |-> FALSE, plan_id |-> DNone]
    ELSE [error |-> FALSE, oslo_relevant |-> TRUE,
          plan_id |-> analyze_oslo_content(doc.text, doc.plan_id).plan_id]

\* OsloPlanningSystem.analyze_oslo_pdf on a file [path, text, plan_id]:
\* whether it returned an error dict, whether the analysis is marked
\* oslo_relevant, and the plan_id of the analysis
analyze_oslo_pdf(doc) ==
    IF doc.text = <<>>
    THEN [error |-> TRUE, oslo_relevant |-> FALSE, plan_id |-> DNone]
    ELSE [error |-> FALSE,
          oslo_relevant |-> analyze_oslo_content(doc.text, doc.plan_id).oslo_relevance_score > 0,
          plan_id |-> analyze_oslo_content(doc.text, doc.plan_id).plan_id]

\* the texts extracted from the PDF files
ClassifyTexts ==
    { <<>>, X_frogner_og_sentrum, X_sentrum_plan, X_bergen_havn, D_abstract, D_origo,
      X_sentrum_twice, X_sentrum_upper, X_sondre_nordstrand, X_groruddalen, X_pbe_oslo,
      X_barcode, T_endring }

\* what extract_plan_id finds in the text of a file
ClassifyPlanIds == { DNone, DStr(P_uuid) }

InitClassify ==
    /\ KeyIdle
    /\ MergeIdle
    /\ HeapIdle
    /\ DriverIdle
    /\ cdoc \in [path : {F_a}, text : ClassifyTexts, plan_id : ClassifyPlanIds]
    /\ ccontent = NotClassified
    /\ cpdf = NotClassified
    /\ cbatch = NotClassified

AnalyzeOsloContent ==
    /\ ~ccontent.done
    /\ ccontent' = Classified(analyze_oslo_content(cdoc.text, cdoc.plan_id))
    /\ UNCHANGED <<cdoc, cpdf, cbatch, keyVars, heapVars, mergeVars, driverVars>>

AnalyzeOsloPdf ==
    /\ ~cpdf.done
    /\ cpdf' = Classified(analyze_oslo_pdf(cdoc))
    /\ UNCHANGED <<cdoc, ccontent, cbatch, keyVars, heapVars, mergeVars, driverVars>>

ProcessOsloPdfDocuments ==
    /\ ~cbatch.done
    /\ cbatch' = Classified(process_oslo_pdf_documents(<<cdoc>>))
    /\ UNCHANGED <<cdoc, ccontent, cpdf, keyVars, heapVars, mergeVars, driverVars>>

NextClassify == AnalyzeOsloContent \/ AnalyzeOsloPdf \/ ProcessOsloPdfDocuments

SpecClassify == InitClassify /\ [][NextClassify]_vars

----------------------------------------------------------------------------
(* IntegratedPlanningSystem: collectors, driver *)

\* IntegratedPlanningSystem.process_pdf_files: the records of the PDF files
\* docs, a file being [path, plan_id, municipality]: what extract_plan_id
\* finds in its text (None or a str) and the cleaned municipality name
process_pdf_files(docs) ==
    [ i \in DOMAIN docs |->
        DDict([ source       |-> DStr(SRC_pdf_analysis),
                file_path    |-> DStr(docs[i].path),
                plan_id      |-> docs[i].plan_id,
                municipality |-> DStr(docs[i].municipality) ]) ]

\* x in v, for a str x and a value v
Contains(x, v) == v.t = "str" /\ IsSubstring(x, v.s)

\* the test find_matching_plans makes on one plan: "yes", "no", or the
\* exception it raises
PlanMatches(pdf, plan) ==
    LET pdf_municipality  == Get(pdf, "municipality", PyStr(<<>>))
        pdf_plan_id       == Get(pdf, "plan_id", PyStr(<<>>))
        plan_municipality == Get(plan, "municipality", PyStr(<<>>))
        plan_plan_id      == Get(plan, "plan_id", PyStr(<<>>))
        plan_title        == Get(plan, "title", PyStr(<<>>))
    IN  IF plan_municipality.t # "str" THEN "AttributeError"
        ELSE IF ~(/\ \/ IsSubstring(Lower(pdf_municipality.s), Lower(plan_municipality.s))
                     \/ IsSubstring(Lower(plan_municipality.s), Lower(pdf_municipality.s))
                  /\ Truthy(pdf_plan_id, <<>>))
        THEN "no"
        ELSE IF plan_plan_id.t # "str" \/ pdf_plan_id.t # "str" THEN "TypeError"
        ELSE IF IsSubstring(pdf_plan_id.s, plan_plan_id.s) THEN "yes"
        ELSE IF plan_title.t # "str" THEN "TypeError"
        ELSE IF IsSubstring(pdf_plan_id.s, plan_title.s) THEN "yes"
        ELSE "no"

\* find_matching_plans with every unified plan a match
find_matching_plans_all(pdf, unified, dh) == [exc |-> "", matches |-> DOMAIN unified]

\* IntegratedPlanningSystem.find_matching_plans(pdf_analysis, unified_plans):
\* the positions of the matching plans in unified_plans, or the exception
find_matching_plans(pdf, unified, dh) ==
    LET Raising(verdict) == { j \in DOMAIN unified : verdict[j] \notin {"yes", "no"} }
        Decide(verdict, bad) ==
            IF bad # {}
            THEN [exc     |-> verdict[CHOOSE j \in bad : \A k \in bad : j <= k],
                  matches |-> {}]
            ELSE [exc |-> "", matches |-> { j \in DOMAIN unified : verdict[j] = "yes" }]
        Loop(verdict) == Decide(verdict, Raising(verdict))
    IN  IF Get(dh[pdf], "municipality", PyStr(<<>>)).t # "str"
        THEN [exc |-> "AttributeError", matches |-> {}]
        ELSE Loop([j \in DOMAIN unified |-> PlanMatches(dh[pdf], dh[unified[j].addr])])

\* one round of the first loop of cross_reference_data; st is
\* [dh, lh, unified, exc]
PlanFoldItem(st, plan) ==
    LET Merged(j, r) == [st EXCEPT !.dh = r.dh, !.lh = r.lh, !.unified[j].addr = r.ret]
        Stored(k, j) ==
            IF j # 0
            THEN Merged(j, merge_plan_data(st.unified[j].addr, plan, st.dh, st.lh))
            ELSE [st EXCEPT !.unified = Append(@, [key |-> k.key, addr |-> plan])]
        Keyed(k) ==
            IF k.exc # "" THEN [st EXCEPT !.exc = k.exc]
            ELSE Stored(k, KeyIndex(st.unified, k.key))
    IN  IF st.exc # "" THEN st
        ELSE Keyed(generate_plan_key(st.dh[plan]))

RECURSIVE PlanFold(_, _, _)
PlanFold(st, plans, i) ==
    IF i > Len(plans) THEN st
    ELSE PlanFold(PlanFoldItem(st, plans[i]), plans, i + 1)

\* PdfFoldItem with the analysis given to the first matching plan only
PdfFoldItem_first(st, pdf) ==
    LET Matched(m) ==
            IF m.exc # "" THEN [st EXCEPT !.exc = m.exc]
            ELSE [st EXCEPT !.dh =
                    [a \in DOMAIN st.dh |->
                       IF \E j \in m.matches : /\ st.unified[j].addr = a
                                               /\ \A k \in m.matches : j <= k
                       THEN [st.dh[a] EXCEPT !["pdf_analysis"] = PyDict(pdf)]
                       ELSE st.dh[a]]]
    IN  IF st.exc # "" THEN st
        ELSE Matched(find_matching_plans(pdf, st.unified, st.dh))

\* PdfFoldItem with a plan that holds an analysis keeping it
PdfFoldItem_keep(st, pdf) ==
    LET Matched(m) ==
            IF m.exc # "" THEN [st EXCEPT !.exc = m.exc]
            ELSE [st EXCEPT !.dh =
                    [a \in DOMAIN st.dh |->
                       IF /\ \E j \in m.matches : st.unified[j].addr = a
                          /\ st.dh[a]["pdf_analysis"].t = "absent"
                       THEN [st.dh[a] EXCEPT !["pdf_analysis"] = PyDict(pdf)]
                       ELSE st.dh[a]]]
    IN  IF st.exc # "" THEN st
        ELSE Matched(find_matching_plans(pdf, st.unified, st.dh))

\* one round of the second loop: every matching plan gets the analysis
PdfFoldItem(st, pdf) ==
    LET Matched(m) ==
            IF m.exc # "" THEN [st EXCEPT !.exc = m.exc]
            ELSE [st EXCEPT !.dh =
                    [a \in DOMAIN st.dh |->
                       IF \E j \in m.matches : st.unified[j].addr = a
                       THEN [st.dh[a] EXCEPT !["pdf_analysis"] = PyDict(pdf)]
                       ELSE st.dh[a]]]
    IN  IF st.exc # "" THEN st
        ELSE Matched(find_matching_plans(pdf, st.unified, st.dh))

RECURSIVE PdfFold(_, _, _)
PdfFold(st, pdfs, i) ==
    IF i > Len(pdfs) THEN st
    ELSE PdfFold(PdfFoldItem(st, pdfs[i]), pdfs, i + 1)

\* how many of the dicts at the addresses xs have the source tag
CountSource(xs, tag, dh) ==
    Cardinality({ i \in DOMAIN xs : dh[xs[i]]["source"] = PyStr(tag) })

\* IntegratedPlanningSystem.get_sources_summary
get_sources_summary(data, dh) ==
    [ geonorge     |-> CountSource(data.regulatory_plans, SRC_geonorge, dh),
      oslo_origo   |-> CountSource(data.regulatory_plans, SRC_oslo_origo, dh),
      pdf_analyses |-> Len(data.pdf_analyses) ]

\* IntegratedPlanningSystem.cross_reference_data on the stored batches data:
\* the heaps after it, and its return value written out
cross_reference_data(data, dh, lh) ==
    LET Result(st) ==
        [ dh  |-> st.dh,
          lh  |-> st.lh,
          ret |-> IF st.exc # "" THEN RaisedResult("cross_reference_data", st.exc)
                  ELSE [ fn               |-> "cross_reference_data",
                         exc              |-> "",
                         keys             |-> [j \in DOMAIN st.unified |-> st.unified[j].key],
                         unified_plans    |-> [j \in DOMAIN st.unified |->
                                                 DeepDict(st.unified[j].addr, st.dh, st.lh)],
                         cross_references |->
                             Cardinality({ j \in DOMAIN st.unified :
                                 st.dh[st.unified[j].addr]["pdf_analysis"].t # "absent" }),
                         sources_summary  |-> get_sources_summary(data, st.dh) ] ]
    IN  Result(PdfFold(PlanFold([dh |-> dh, lh |-> lh, unified |-> <<>>, exc |-> ""],
                                data.regulatory_plans, 1),
                       data.pdf_analyses, 1))

\* what generate_recommendations appends besides its two fixed texts
generate_recommendations(xref, dh, lh) ==
    LET total_plans      == Len(xref.unified_plans)
        cross_referenced == xref.cross_references
        oslo_plans       == Cardinality({ j \in DOMAIN xref.unified_plans :
                                LET srcs == xref.unified_plans[j]["sources"]
                                IN  srcs.t = "list" /\ SRC_oslo_origo \in Range(srcs.l) })
    IN  (IF total_plans = 0 THEN {"no_planning_data"} ELSE {})
        \cup (IF total_plans > 0 /\ 10 * cross_referenced < 3 * total_plans
              THEN {"low_cross_reference_rate"} ELSE {})
        \cup (IF oslo_plans = 0 THEN {"no_oslo_origo_data"} ELSE {})

\* the report generate_analysis_report builds from a cross-reference result
AnalysisReport(xref, data, dh, lh) ==
    LET plans == xref.unified_plans
    IN  [ total_plans            |-> Len(plans),
          sources_breakdown      |-> get_sources_summary(data, dh),
          cross_referenced_plans |-> xref.cross_references,
          municipalities_covered |->
              Cardinality({ (IF plans[j]["municipality"].t = "absent"
                             THEN DStr(S_unknown) ELSE plans[j]["municipality"]) :
                            j \in DOMAIN plans }),
          plans_with_plan_id     |->
              Cardinality({ j \in DOMAIN plans :
                  plans[j]["plan_id"].t = "str" /\ plans[j]["plan_id"].s # <<>> }),
          plans_with_pdf_data    |->
              Cardinality({ j \in DOMAIN plans : plans[j]["pdf_analysis"].t # "absent" }),
          recommendations        |-> generate_recommendations(xref, dh, lh) ]

\* the report generate_oslo_report builds from a cross-reference result
OsloReport(xref) ==
    [ total_oslo_data_points |-> xref.total_oslo_items,
      oslo_coverage          |-> xref.oslo_coverage,
      oslo_specific_data     |-> xref.total_oslo_items,
      multi_source_items     |->
          Cardinality({ j \in DOMAIN xref.oslo_unified_data :
              LET srcs == xref.oslo_unified_data[j]["oslo_sources"]
              IN  srcs.t = "list" /\ Len(srcs.l) > 1 }),
      areas_covered          |-> xref.oslo_coverage.covered_oslo_areas ]

NoReport == [made |-> FALSE]

----------------------------------------------------------------------------
(* Spec: one process running one of the two systems *)

\* how many records one collector returns at most
MaxBatch == 2

\* how many times a process calls integrate_* and generate_*_report at most
MaxIntegrations == 1
MaxReports == 1

\* SpecRepeat: how many times the caller runs the integration on one
\* instance, and how many records a collector returns at most
MaxRepeat == 3
MaxRepeatBatch == 1

\* what search_oslo_origo_datasets may return (OsloPlanningSystem)
OsloOrigoPool ==
    { DDict([source |-> DStr(SRC_oslo_origo), title |-> DStr(T_byggetillatelser)]),
      DDict([source |-> DStr(SRC_oslo_origo), title |-> DStr(T_eiendomsdata)]),
      DDict([source |-> DStr(SRC_oslo_origo), title |-> DStr(T_regulering_sentrum),
             municipality |-> DStr(M_Oslo), description |-> DStr(D_origo)]) }

\* what search_oslo_geonorge_data may return
OsloGeonorgePool ==
    { DDict([source |-> DStr(SRC_geonorge_oslo), plan_id |-> DStr(<<>>),
             title |-> DStr(T_regulering_sentrum), municipality |-> DStr(M_Oslo),
             description |-> DStr(D_abstract)]),
      DDict([source |-> DStr(SRC_geonorge_oslo), plan_id |-> DStr(P_uuid),
             title |-> DStr(T_sentrum_nord)]) }

\* the PDF files process_oslo_pdf_documents may find
OsloPdfPool ==
    { [path |-> F_a, text |-> X_frogner_og_sentrum, plan_id |-> DStr(P_uuid)],
      [path |-> F_b, text |-> X_sentrum_plan,       plan_id |-> DStr(P_uuid)],
      [path |-> F_c, text |-> X_bergen_havn,        plan_id |-> DNone] }

\* what search_geonorge_plans may return (IntegratedPlanningSystem)
GeonorgePool ==
    { DDict([source |-> DStr(SRC_geonorge), plan_id |-> DStr(<<>>),
             title |-> DStr(T_regulering_frogner_park), municipality |-> DStr(M_Oslo)]),
      DDict([source |-> DStr(SRC_geonorge), plan_id |-> DStr(<<>>),
             title |-> DStr(T_regulering_sentrum), municipality |-> DStr(M_Oslo),
             description |-> DStr(D_abstract)]),
      DDict([source |-> DStr(SRC_geonorge), plan_id |-> DStr(P_uuid),
             title |-> DStr(T_sentrum_nord), municipality |-> DStr(M_Oslo)]),
      DDict([source |-> DStr(SRC_geonorge), plan_id |-> DStr(<<>>),
             title |-> DStr(T_endring), municipality |-> DStr(M_Oslo)]),
      \* a search result whose Uuid is null
      DDict([source |-> DStr(SRC_geonorge), plan_id |-> DNone,
             title |-> DStr(T_sentrum_syd), municipality |-> DStr(M_Oslo)]) }

\* what search_oslo_origo_plans may return
OrigoPool ==
    { DDict([source |-> DStr(SRC_oslo_origo), plan_id |-> DStr(P_OSL_001),
             title |-> DStr(T_frogner_park_plan), municipality |-> DStr(M_Oslo)]),
      DDict([source |-> DStr(SRC_oslo_origo),
             title |-> DStr(T_regulering_sentrum), municipality |-> DStr(M_Oslo),
             description |-> DStr(D_origo)]) }

\* the PDF files process_pdf_files may find
PdfPool ==
    { [path |-> F_a, plan_id |-> DStr(P_OSL_001), municipality |-> M_Oslo],
      [path |-> F_b, plan_id |-> DNone,           municipality |-> M_Unknown],
      [path |-> F_c, plan_id |-> DStr(P_OSL_001), municipality |-> M_Oslo] }

\* the sequences of at most MaxBatch different elements of pool
Batches(pool) ==
    UNION { { b \in [1..n -> pool] : \A i, j \in 1..n : i # j => b[i] # b[j] } :
            n \in 0..MaxBatch }

CallCount(name) == Cardinality({ i \in DOMAIN calls : calls[i] = name })

Init ==
    /\ ClassifyIdle
    /\ KeyIdle
    /\ MergeIdle
    /\ HeapIdle
    /\ \/ /\ system = "oslo"
          /\ world \in [origo : Batches(OsloOrigoPool), geonorge : Batches(OsloGeonorgePool),
                        docs : Batches(OsloPdfPool), runs : {MaxIntegrations}]
       \/ /\ system = "integrated"
          /\ world \in [origo : Batches(OrigoPool), geonorge : Batches(GeonorgePool),
                        docs : Batches(PdfPool), runs : {MaxIntegrations}]
    /\ oslo_data = [origo_datasets |-> <<>>, reguleringsplaner |-> <<>>, pdf_documents |-> <<>>]
    /\ integrated_data = [regulatory_plans |-> <<>>, pdf_analyses |-> <<>>]
    /\ hashes = {}
    /\ calls = <<>>
    /\ results = <<>>

\* what hash() has been applied to so far, and what it returned
HashedSoFar == { p.arg : p \in hashes }

HashSoFar(x) == (CHOOSE p \in hashes : p.arg = x).val

\* hash() as this pass sees it: as before on what it was applied to before
AgreesWithHashes(h) == \A x \in DOMAIN h \cap HashedSoFar : h[x] = HashSoFar(x)

HashPairs(h) == { [arg |-> x, val |-> h[x]] : x \in DOMAIN h }

\* OsloStored with reguleringsplaner replaced like the other two batches
OsloStored_replace(a, n_origo, n_geonorge) ==
    [ origo_datasets    |-> SubSeq(a, 1, n_origo),
      reguleringsplaner |-> SubSeq(a, n_origo + 1, n_origo + n_geonorge),
      pdf_documents     |-> SubSeq(a, n_origo + n_geonorge + 1, Len(a)) ]

\* the stored batches of the Oslo system after the collectors returned the
\* records at the addresses a: origo_datasets and pdf_documents are
\* replaced, reguleringsplaner is extended
OsloStored(a, n_origo, n_geonorge) ==
    [ origo_datasets    |-> SubSeq(a, 1, n_origo),
      reguleringsplaner |-> oslo_data.reguleringsplaner
                            \o SubSeq(a, n_origo + 1, n_origo + n_geonorge),
      pdf_documents     |-> SubSeq(a, n_origo + n_geonorge + 1, Len(a)) ]

IntegrateOsloData ==
    /\ system = "oslo"
    /\ CallCount("integrate_oslo_data") < world.runs
    /\ \E a \in { AllocBatch(world.origo \o world.geonorge
                             \o process_oslo_pdf_documents(world.docs), dheap, lheap) } :
       \E data \in { OsloStored(a.ret, Len(world.origo), Len(world.geonorge)) } :
       \E h \in [OsloHashesNeeded(AllOsloData(data), a.dh, a.lh) -> HashVals] :
       \E r \in { cross_reference_oslo_data(data, a.dh, a.lh, h) } :
          /\ AgreesWithHashes(h)
          /\ oslo_data' = data
          /\ hashes' = hashes \cup HashPairs(h)
          /\ dheap' = r.dh
          /\ lheap' = r.lh
          /\ results' = Append(results, [call |-> "integrate_oslo_data",
                                         xref |-> r.ret, report |-> NoReport])
    /\ calls' = Append(calls, "integrate_oslo_data")
    /\ UNCHANGED <<system, world, integrated_data, keyVars, mergeVars, classifyVars>>

GenerateOsloReport ==
    /\ system = "oslo"
    /\ CallCount("generate_oslo_report") < MaxReports
    /\ \E h \in [OsloHashesNeeded(AllOsloData(oslo_data), dheap, lheap) -> HashVals] :
       \E r \in { cross_reference_oslo_data(oslo_data, dheap, lheap, h) } :
          /\ AgreesWithHashes(h)
          /\ hashes' = hashes \cup HashPairs(h)
          /\ dheap' = r.dh
          /\ lheap' = r.lh
          /\ results' = Append(results,
               [call |-> "generate_oslo_report", xref |-> r.ret,
                report |-> IF r.ret.exc = "" THEN OsloReport(r.ret) ELSE NoReport])
    /\ calls' = Append(calls, "generate_oslo_report")
    /\ UNCHANGED <<system, world, oslo_data, integrated_data, keyVars, mergeVars, classifyVars>>

\* the stored batches of the integrated system after the collectors returned
\* the records at the addresses a: both lists are extended
IntegratedStored(a, n_plans) ==
    [ regulatory_plans |-> integrated_data.regulatory_plans \o SubSeq(a, 1, n_plans),
      pdf_analyses     |-> integrated_data.pdf_analyses \o SubSeq(a, n_plans + 1, Len(a)) ]

IntegrateDataSources ==
    /\ system = "integrated"
    /\ CallCount("integrate_data_sources") < world.runs
    /\ \E a \in { AllocBatch(world.geonorge \o world.origo \o process_pdf_files(world.docs),
                             dheap, lheap) } :
       \E data \in { IntegratedStored(a.ret, Len(world.geonorge) + Len(world.origo)) } :
       \E r \in { cross_reference_data(data, a.dh, a.lh) } :
          /\ integrated_data' = data
          /\ dheap' = r.dh
          /\ lheap' = r.lh
          /\ results' = Append(results, [call |-> "integrate_data_sources",
                                         xref |-> r.ret, report |-> NoReport])
    /\ calls' = Append(calls, "integrate_data_sources")
    /\ UNCHANGED <<system, world, oslo_data, hashes, keyVars, mergeVars, classifyVars>>

GenerateAnalysisReport ==
    /\ system = "integrated"
    /\ CallCount("generate_analysis_report") < MaxReports
    /\ \E r \in { cross_reference_data(integrated_data, dheap, lheap) } :
          /\ dheap' = r.dh
          /\ lheap' = r.lh
          /\ results' = Append(results,
               [call |-> "generate_analysis_report", xref |-> r.ret,
                report |-> IF r.ret.exc = ""
                           THEN AnalysisReport(r.ret, integrated_data, r.dh, r.lh)
                           ELSE NoReport])
    /\ calls' = Append(calls, "generate_analysis_report")
    /\ UNCHANGED <<system, world, oslo_data, integrated_data, hashes, keyVars, mergeVars, classifyVars>>

Next ==
    \/ IntegrateOsloData
    \/ GenerateOsloReport
    \/ IntegrateDataSources
    \/ GenerateAnalysisReport

Spec == Init /\ [][Next]_vars

\* the batches of at most MaxRepeatBatch elements of pool
RepeatBatches(pool) == { b \in Batches(pool) : Len(b) <= MaxRepeatBatch }

\* SpecRepeat: one instance on which the integration runs MaxRepeat times,
\* the collectors returning the same batches every time
InitRepeat ==
    /\ ClassifyIdle
    /\ KeyIdle
    /\ MergeIdle
    /\ HeapIdle
    /\ \/ /\ system = "oslo"
          /\ world \in [origo : RepeatBatches(OsloOrigoPool),
                        geonorge : RepeatBatches(OsloGeonorgePool),
                        docs : RepeatBatches(OsloPdfPool), runs : {MaxRepeat}]
       \/ /\ system = "integrated"
          /\ world \in [origo : RepeatBatches(OrigoPool),
                        geonorge : RepeatBatches(GeonorgePool),
                        docs : RepeatBatches(PdfPool), runs : {MaxRepeat}]
    /\ oslo_data = [origo_datasets |-> <<>>, reguleringsplaner |-> <<>>, pdf_documents |-> <<>>]
    /\ integrated_data = [regulatory_plans |-> <<>>, pdf_analyses |-> <<>>]
    /\ hashes = {}
    /\ calls = <<>>
    /\ results = <<>>

SpecRepeat == InitRepeat /\ [][Next]_vars

----------------------------------------------------------------------------
(* Claims about the key generators (SpecKey) *)

\* the municipality text a record is keyed under: its municipality, or
\* 'unknown' when it has none
MunicipalityText(rec) ==
    IF rec["municipality"].t = "absent" THEN S_unknown ELSE rec["municipality"].s

HasIdentifier(rec) == rec["plan_id"].t = "str" /\ rec["plan_id"].s # <<>>

NoIdentifier(rec) == ~Truthy(Get(rec, "plan_id", PyStr(<<>>)), <<>>)

\* C1: for every input record, generate_plan_key and generate_oslo_key
\* return a key and never raise.
C1_NeverRaises ==
    /\ kplan # NotRun => kplan.exc = ""
    /\ koslo # NotRun => koslo.exc = ""

\* C2: every key a key generator returns is a non-empty string, also for a
\* record whose identifier, title and municipality are all empty strings.
C2_KeyNonEmpty ==
    /\ (kplan # NotRun /\ kplan.exc = "") => kplan.key # <<>>
    /\ (koslo # NotRun /\ koslo.exc = "") => koslo.key # <<>>

\* C9: for every record with a non-empty identifier the key is the
\* lowercased municipality combined with the identifier ('oslo' being the
\* municipality of the Oslo system), whatever the title and other attributes.
C9_IdentifierKey ==
    HasIdentifier(krec) =>
        /\ kplan # NotRun =>
              kplan = Returned(Lower(MunicipalityText(krec)) \o <<"_">> \o krec["plan_id"].s)
        /\ koslo # NotRun =>
              koslo = Returned(S_oslo \o <<"_">> \o krec["plan_id"].s)

\* the records C10 is about: no (or empty) identifier, a non-empty title,
\* a municipality that is a str or is missing
C10_Domain ==
    /\ NoIdentifier(krec)
    /\ krec["title"].t = "str" /\ krec["title"].s # <<>>
    /\ krec["municipality"].t \in {"str", "absent"}

IsWordRun(s, i, j) ==
    /\ i <= j
    /\ \A k \in i..j : s[k] \in WordChars
    /\ i = 1 \/ s[i - 1] \notin WordChars
    /\ j = Len(s) \/ s[j + 1] \notin WordChars

WordRunSpans(s) == { p \in (1..Len(s)) \X (1..Len(s)) : IsWordRun(s, p[1], p[2]) }

\* the n-th maximal run of word characters of s, from the left
NthWordRun(s, n) ==
    LET p == CHOOSE q \in WordRunSpans(s) :
                Cardinality({ r \in WordRunSpans(s) : r[1] < q[1] }) = n - 1
    IN  SubSeq(s, p[1], p[2])

\* '_' and the n-th run of s if s has one, nothing otherwise
KeyPart(s, n) ==
    IF Cardinality(WordRunSpans(s)) >= n THEN <<"_">> \o NthWordRun(s, n) ELSE <<>>

IdentifierFree ==
    { Dict([municipality |-> m, title |-> ti, plan_id |-> p]) :
        m \in KeyMunicipalities, ti \in KeyTitles, p \in { q \in KeyPlanIds : ~Truthy(q, <<>>) } }

\* the keys generate_oslo_key can give the record r, over the values of hash()
OsloKeysOf(r) ==
    { generate_oslo_key(r, DeepItems(r, <<>>, <<>>),
                        [x \in OsloKeyHashes(r, DeepItems(r, <<>>, <<>>)) |-> hv]) :
        hv \in HashVals }

\* C25: the identifier path and the title path give different keys: the key
\* of a record with a non-empty identifier is the key of no record without
\* an identifier.
C25_PathsDisjoint ==
    HasIdentifier(krec) =>
        /\ (kplan # NotRun /\ kplan.exc = "") =>
              \A r \in IdentifierFree : generate_plan_key(r) # kplan
        /\ (koslo # NotRun /\ koslo.exc = "") =>
              \A r \in IdentifierFree : koslo \notin OsloKeysOf(r)

\* the configured areas that occur in the lowercased title of krec
AreasInTitle ==
    { i \in DOMAIN Omrader :
        krec["title"].t = "str" /\ IsSubstring(Omrader[i], Lower(krec["title"].s)) }

\* the key with the given middle part and the hash of this call
HashKey(part) == Returned(S_oslo \o <<"_">> \o part \o <<"_">> \o IntToStr(khash % HashMod))

\* C30: generate_oslo_key applies a fixed precedence: a non-empty plan_id
\* gives oslo_<plan_id> whatever the title is; otherwise the first configured
\* area contained in the lowercased title is used; a record whose title
\* contains no configured area, or that has no title, gets oslo_general_<hash>.
C30_KeyPrecedence ==
    koslo # NotRun =>
        IF Truthy(Get(krec, "plan_id", PyStr(<<>>)), <<>>)
        THEN koslo = Returned(S_oslo \o <<"_">> \o Format(krec["plan_id"]))
        ELSE IF AreasInTitle # {}
        THEN koslo = HashKey(Omrader[CHOOSE i \in AreasInTitle : \A j \in AreasInTitle : i <= j])
        ELSE koslo = HashKey(S_general)

----------------------------------------------------------------------------
(* Claims about the merge functions (SpecMerge) *)

\* the two arguments as they were when the merge was called, and its result
MergedExisting == DeepDict(mexisting, mpre.dh, mpre.lh)
MergedNew      == DeepDict(mnew, mpre.dh, mpre.lh)
MergedOut      == DeepDict(mout.ret, dheap, lheap)

MergeReturned == mfun # "none" /\ mout.exc = ""

\* the key of the sources list the merge function that ran maintains
SourcesKey == IF mfun = "plan" THEN "sources" ELSE "oslo_sources"

\* how often x occurs in the list xs
Occurrences(x, xs) == Cardinality({ i \in DOMAIN xs : xs[i] = x })

\* a populated value: present and not empty
Populated(dv) ==
    CASE dv.t = "str"  -> dv.s # <<>>
      [] dv.t = "int"  -> dv.n # 0
      [] dv.t = "list" -> dv.l # <<>>
      [] dv.t = "dict" -> TRUE
      [] OTHER         -> FALSE

\* C3: merging a record r into itself yields a record equal to r in every
\* attribute other than the sources list, which holds r's source exactly
\* once; list-valued attributes are not lengthened.
C3_MergeIdempotent ==
    (MergeReturned /\ MergedNew = MergedExisting) =>
        /\ \A f \in Fields \ {SourcesKey} : MergedOut[f] = MergedExisting[f]
        /\ MergedExisting["source"].t = "str" =>
              Occurrences(MergedExisting["source"].s, MergedOut[SourcesKey].l) = 1

\* the attributes of a record (its source tag and sources lists apart)
Attributes == Fields \ {"source", "sources", "oslo_sources"}

\* C4: every attribute populated in existing or in incoming is populated in
\* the merged record.
C4_MergeMonotonic ==
    MergeReturned =>
        \A f \in Attributes :
            (Populated(MergedExisting[f]) \/ Populated(MergedNew[f]))
                => Populated(MergedOut[f])

\* both records carry a source tag, as the records of every collector do
BothTagged == MergedExisting["source"].t = "str" /\ MergedNew["source"].t = "str"

\* the sources existing listed before the call
PriorSources ==
    IF MergedExisting[SourcesKey].t = "list" THEN MergedExisting[SourcesKey].l ELSE <<>>

ScalarAttributes ==
    { f \in Attributes : /\ MergedExisting[f].t \in {"str", "absent"}
                         /\ MergedNew[f].t \in {"str", "absent"} }

\* C13: for every pair (existing, incoming) and every scalar attribute, the
\* merged record keeps existing's value when existing has it populated,
\* and holds incoming's value when existing has it empty or absent and
\* incoming has it populated.
C13_FirstNonEmptyWins ==
    MergeReturned =>
        \A f \in ScalarAttributes :
            /\ Populated(MergedExisting[f]) => MergedOut[f] = MergedExisting[f]
            /\ (~Populated(MergedExisting[f]) /\ Populated(MergedNew[f]))
                  => MergedOut[f] = MergedNew[f]

\* the attributes that hold a non-empty list in both records of the pair
ListsOnBoth ==
    { f \in Attributes : /\ MergedExisting[f].t = "list" /\ MergedExisting[f].l # <<>>
                         /\ MergedNew[f].t = "list" /\ MergedNew[f].l # <<>> }

\* C14: for every list-valued attribute populated on both existing and
\* incoming, the merged record holds existing's list followed by incoming's
\* list, duplicates kept.
C14_ListsConcatenated ==
    MergeReturned =>
        \A f \in ListsOnBoth :
            /\ MergedOut[f].t = "list"
            /\ MergedOut[f].l = MergedExisting[f].l \o MergedNew[f].l

----------------------------------------------------------------------------
(* Claims about the drivers (Spec) *)

Integrations == { "integrate_oslo_data", "integrate_data_sources" }

Reports == { "generate_oslo_report", "generate_analysis_report" }

\* how many of the first i calls were integrations
IntegrationsUpTo(i) == Cardinality({ k \in 1..i : calls[k] \in Integrations })

\* the unified records call i produced, written out as they were on return
UnifiedRecords(i) ==
    IF system = "oslo" THEN results[i].xref.oslo_unified_data
    ELSE results[i].xref.unified_plans

\* what call i's pass of the aggregation produced: the exception, or the keys
\* and the unified records
RunOutcome(i) ==
    IF results[i].xref.exc # ""
    THEN [exc |-> results[i].xref.exc, keys |-> <<>>, records |-> <<>>]
    ELSE [exc |-> "", keys |-> results[i].xref.keys, records |-> UnifiedRecords(i)]

\* C5: a report's pass of the aggregation runs on the batches the call before
\* it ran on, in the same order, and yields the same unified records
C5_Deterministic ==
    \A i \in 1..(Len(results) - 1) :
        calls[i + 1] \in Reports => RunOutcome(i + 1) = RunOutcome(i)

\* C6: in every result of the Oslo aggregation, the number of covered areas
\* is at most the number of configured areas, and the coverage percentage
\* is at most 100
C6_CoverageBounded ==
    \A i \in DOMAIN results :
        (system = "oslo" /\ results[i].xref.exc = "") =>
            LET cov == results[i].xref.oslo_coverage
            IN  /\ cov.covered_oslo_areas <= cov.total_oslo_areas
                /\ cov.coverage_percentage.num <= 100 * cov.coverage_percentage.den

\* a result whose records name two areas
C6_Witness ==
    /\ system = "oslo"
    /\ \E i \in DOMAIN results :
         /\ results[i].xref.exc = ""
         /\ results[i].xref.oslo_coverage.covered_oslo_areas = 2
         /\ \E j \in DOMAIN UnifiedRecords(i) :
              Len(UnifiedRecords(i)[j]["oslo_areas"].l) > 2

\* the sources a unified record names: its sources list, or its source tag
\* when it was never merged
SourcesSeen(rec) ==
    LET key == IF system = "oslo" THEN "oslo_sources" ELSE "sources"
    IN  IF rec[key].t = "list" THEN Range(rec[key].l)
        ELSE IF rec["source"].t = "str" THEN {rec["source"].s}
        ELSE {}

\* the records of the two example scenarios
ScenarioA_NoMerge ==
    DDict([source |-> DStr(SRC_geonorge), plan_id |-> DStr(<<>>),
           title |-> DStr(T_regulering_frogner_park), municipality |-> DStr(M_Oslo)])

ScenarioB_NoMerge ==
    DDict([source |-> DStr(SRC_oslo_origo), plan_id |-> DStr(P_OSL_001),
           title |-> DStr(T_frogner_park_plan), municipality |-> DStr(M_Oslo)])

NoMergeScenario ==
    /\ system = "integrated"
    /\ world.geonorge = <<ScenarioA_NoMerge>>
    /\ world.origo = <<ScenarioB_NoMerge>>

\* C7: batch A = [geonorge, no identifier, "Reguleringsplan Frogner Park",
\* Oslo] and batch B = [oslo_origo, "OSL-001", "Frogner Park Plan", Oslo]
\* give two unified records, each with exactly one source
C7_NoMerge ==
    NoMergeScenario =>
        \A i \in DOMAIN results :
            IntegrationsUpTo(i) = 1 =>
                /\ results[i].xref.exc = ""
                /\ Len(UnifiedRecords(i)) = 2
                /\ results[i].xref.keys[1] # results[i].xref.keys[2]
                /\ SourcesSeen(UnifiedRecords(i)[1]) = {SRC_geonorge}
                /\ SourcesSeen(UnifiedRecords(i)[2]) = {SRC_oslo_origo}

\* the title-path key part of "Reguleringsplan Frogner Park"
KeyPart_frogner_park ==
    << "r","e","g","u","l","e","r","i","n","g","s","p","l","a","n","_",
       "f","r","o","g","n","e","r","_","p","a","r","k" >>

C7_Witness ==
    /\ NoMergeScenario
    /\ \E i \in DOMAIN results :
         /\ IntegrationsUpTo(i) = 1
         /\ Len(UnifiedRecords(i)) = 2
         /\ results[i].xref.keys = << S_oslo \o <<"_">> \o KeyPart_frogner_park,
                                      S_oslo \o <<"_">> \o P_OSL_001 >>

\* a scenario record: no identifier, title "Reguleringsplan Sentrum",
\* municipality "Oslo"
IsMergeScenarioRecord(rec) ==
    /\ rec["plan_id"].t \in {"absent", "none"} \/ rec["plan_id"] = DStr(<<>>)
    /\ rec["title"] = DStr(T_regulering_sentrum)
    /\ rec["municipality"] = DStr(M_Oslo)

\* two batches of one scenario record each, from different sources, and no
\* other record
MergeScenario ==
    /\ Len(world.origo) = 1 /\ IsMergeScenarioRecord(world.origo[1])
    /\ Len(world.geonorge) = 1 /\ IsMergeScenarioRecord(world.geonorge[1])
    /\ world.origo[1]["source"] # world.geonorge[1]["source"]
    /\ system = "oslo" => process_oslo_pdf_documents(world.docs) = <<>>

\* C8: two batches from different sources A and B, each one record with no
\* identifier, title "Reguleringsplan Sentrum" and municipality "Oslo", give
\* one unified record whose sources are exactly A and B
C8_Merge ==
    MergeScenario =>
        \A i \in DOMAIN results :
            IntegrationsUpTo(i) = 1 =>
                /\ results[i].xref.exc = ""
                /\ Len(UnifiedRecords(i)) = 1
                /\ SourcesSeen(UnifiedRecords(i)[1])
                     = { world.origo[1]["source"].s, world.geonorge[1]["source"].s }

C8_Witness ==
    /\ MergeScenario
    /\ system = "oslo"
    /\ \E i \in DOMAIN results :
         /\ calls[i] = "integrate_oslo_data"
         /\ Len(UnifiedRecords(i)) = 1
         /\ UnifiedRecords(i)[1]["oslo_sources"].l = <<SRC_oslo_origo, SRC_geonorge_oslo>>

\* a key of the form oslo_general_<number>
IsGeneralKey(key) ==
    /\ Len(key) > Len(S_oslo) + Len(S_general) + 2
    /\ SubSeq(key, 1, Len(S_oslo) + Len(S_general) + 2)
         = S_oslo \o <<"_">> \o S_general \o <<"_">>

\* the different stored records that get a general key: no identifier and
\* no configured area in the title
GeneralRecords ==
    { DeepDict(a, dheap, lheap) : a \in
        { b \in Range(AllOsloData(oslo_data)) :
            \E x \in OsloKeyHashes(dheap[b], DeepDict(b, dheap, lheap)) : x.s = <<>> } }

\* C11: in every result of the Oslo aggregation the records that fall back
\* to a general_<hash> key are isolated: different such records have
\* different keys, so there are as many general keys as there are different
\* such records and none of them is merged with another.
C11_HashIsolation ==
    (system = "oslo" /\ results # <<>> /\ results[Len(results)].xref.exc = "") =>
        Cardinality({ j \in DOMAIN results[Len(results)].xref.keys :
                        IsGeneralKey(results[Len(results)].xref.keys[j]) })
            = Cardinality(GeneralRecords)

\* the PDF records the collector of the Oslo system returned
CollectedPdfRecords == Range(process_oslo_pdf_documents(world.docs))

\* C15: every unified record of the Oslo aggregation that carries a
\* relevance score holds the maximum of the scores of the collected records
\* folded into it: no collected PDF record with its identifier has a higher
\* score.
C15_MaxScore ==
    \A i \in DOMAIN results :
        (system = "oslo" /\ results[i].xref.exc = "") =>
            \A j \in DOMAIN UnifiedRecords(i) : \A p \in CollectedPdfRecords :
                ( /\ UnifiedRecords(i)[j]["oslo_relevance"].t = "int"
                  /\ p["plan_id"].t = "str" /\ p["plan_id"].s # <<>>
                  /\ UnifiedRecords(i)[j]["plan_id"] = p["plan_id"] )
                => UnifiedRecords(i)[j]["oslo_relevance"].n >= p["oslo_relevance"].n

\* the collected records in the order the driver folds them
FoldOrder ==
    IF system = "oslo"
    THEN world.origo \o world.geonorge \o process_oslo_pdf_documents(world.docs)
    ELSE world.geonorge \o world.origo

\* a collected record as the dict the key generators read
AsDict(rec) == [f \in Fields |-> [t |-> rec[f].t, s |-> rec[f].s, n |-> rec[f].n]]

\* the key the driver gave the collected record rec
KeyOf(rec) ==
    IF system = "oslo"
    THEN generate_oslo_key(AsDict(rec), rec, [x \in HashedSoFar |-> HashSoFar(x)]).key
    ELSE generate_plan_key(AsDict(rec)).key

\* the positions in FoldOrder of the records of the key group key that have
\* the attribute f populated with a text
GroupHaving(key, f) ==
    { n \in DOMAIN FoldOrder : /\ KeyOf(FoldOrder[n]) = key
                               /\ FoldOrder[n][f].t = "str"
                               /\ FoldOrder[n][f].s # <<>> }

\* C16: in every result of a driver, for every key group and every scalar
\* attribute populated on more than one record of the group, the unified
\* record holds the value of the earliest such record in fold order (batch
\* order, then list order within the batch).
C16_EarliestWins ==
    \A i \in DOMAIN results :
        (results[i].xref.exc = "" /\ IntegrationsUpTo(i) >= 1) =>
            \A j \in DOMAIN UnifiedRecords(i) : \A f \in Attributes :
                LET having == GroupHaving(results[i].xref.keys[j], f)
                IN  Cardinality(having) > 1 =>
                       UnifiedRecords(i)[j][f]
                         = FoldOrder[CHOOSE n \in having : \A k \in having : n <= k][f]

\* the PDF records the collector of the integrated system returned
CollectedAnalyses == process_pdf_files(world.docs)

\* the unified plan rec matches the PDF record pdf under the heuristic of
\* find_matching_plans
Matches(pdf, rec) == PlanMatches(AsDict(pdf), AsDict(rec)) = "yes"

\* the unified plan rec holds the PDF record pdf as its pdf_analysis
HasAnalysis(rec, pdf) == rec["pdf_analysis"].t = "dict" /\ rec["pdf_analysis"].l = <<pdf>>

\* C17 as stated: a PDF record that matches several unified plans is
\* associated with the first of them only, in the order of the unified
\* plans; no later match holds it.
C17_FirstMatchOnly ==
    \A i \in DOMAIN results :
        (system = "integrated" /\ results[i].xref.exc = "") =>
            \A pdf \in Range(CollectedAnalyses) : \A j, k \in DOMAIN UnifiedRecords(i) :
                (j < k /\ Matches(pdf, UnifiedRecords(i)[j]) /\ Matches(pdf, UnifiedRecords(i)[k]))
                    => ~HasAnalysis(UnifiedRecords(i)[k], pdf)

\* C17 (amended): a PDF record is attached to every unified plan it
\* matches, not to the first only; a plan matched by several PDF records
\* holds the last of them in list order, and a plan no PDF record matches
\* holds none.
C17_EveryMatch ==
    \A i \in DOMAIN results :
        (system = "integrated" /\ results[i].xref.exc = "" /\ IntegrationsUpTo(i) >= 1) =>
            \A k \in DOMAIN UnifiedRecords(i) :
                LET ms == { n \in DOMAIN CollectedAnalyses :
                              Matches(CollectedAnalyses[n], UnifiedRecords(i)[k]) }
                IN  IF ms = {}
                    THEN UnifiedRecords(i)[k]["pdf_analysis"].t = "absent"
                    ELSE HasAnalysis(UnifiedRecords(i)[k],
                             CollectedAnalyses[CHOOSE n \in ms : \A m \in ms : m <= n])

\* one PDF record matched two unified plans, and both hold it
C17_Witness ==
    /\ system = "integrated"
    /\ \E i \in DOMAIN results : \E pdf \in Range(CollectedAnalyses) :
         /\ results[i].xref.exc = ""
         /\ \E j, k \in DOMAIN UnifiedRecords(i) :
              /\ j < k
              /\ Matches(pdf, UnifiedRecords(i)[j]) /\ HasAnalysis(UnifiedRecords(i)[j], pdf)
              /\ Matches(pdf, UnifiedRecords(i)[k]) /\ HasAnalysis(UnifiedRecords(i)[k], pdf)

\* C18: every reconciliation pass (key generation, merge, PDF matching,
\* coverage) returns a result; no exception propagates out of it, also when
\* records have missing or null fields.
C18_NoException ==
    \A i \in DOMAIN results : results[i].xref.exc = ""

\* the batch of PDF records the collector returned
CollectedPdfBatch ==
    IF system = "oslo" THEN process_oslo_pdf_documents(world.docs)
    ELSE process_pdf_files(world.docs)

SomeBatchEmpty == world.origo = <<>> \/ world.geonorge = <<>> \/ CollectedPdfBatch = <<>>

AllBatchesEmpty == world.origo = <<>> /\ world.geonorge = <<>> /\ CollectedPdfBatch = <<>>

\* the keys of the collected records
CollectedKeys == { KeyOf(FoldOrder[n]) : n \in DOMAIN FoldOrder }

\* C19: whichever batches are empty, every pass and every report
\* completes; the unified records are exactly the key groups of the records
\* of the non-empty batches; with all batches empty there is no unified
\* record and the report is made (no division by zero).
C19_EmptyBatches ==
    \A i \in DOMAIN results :
        SomeBatchEmpty =>
            /\ results[i].xref.exc = ""
            /\ calls[i] \in Reports => results[i].report # NoReport
            /\ IntegrationsUpTo(i) >= 1 =>
                  /\ Range(results[i].xref.keys) = CollectedKeys
                  /\ Len(results[i].xref.keys) = Cardinality(CollectedKeys)
            /\ AllBatchesEmpty => Len(UnifiedRecords(i)) = 0

\* the sources a unified record is tagged with: its sources list
TaggedSources(rec) ==
    LET key == IF system = "oslo" THEN "oslo_sources" ELSE "sources"
    IN  IF rec[key].t = "list" THEN Range(rec[key].l) ELSE {}

\* C20: every unified record of a driver's output, merged or not, is tagged
\* with the source of every collected record folded into it, so that the
\* report's test for Oslo Origo data in the sources of the unified plans
\* finds every plan that came from Oslo Origo.
C20_SourcesTagged ==
    \A i \in DOMAIN results :
        (results[i].xref.exc = "" /\ IntegrationsUpTo(i) >= 1) =>
            /\ \A j \in DOMAIN UnifiedRecords(i) : \A n \in DOMAIN FoldOrder :
                  KeyOf(FoldOrder[n]) = results[i].xref.keys[j]
                     => FoldOrder[n]["source"].s \in TaggedSources(UnifiedRecords(i)[j])
            /\ (calls[i] = "generate_analysis_report" /\ world.origo # <<>>)
                  => "no_oslo_origo_data" \notin results[i].report.recommendations

\* the distinct sources whose inputs went into a unified record: the sources
\* it names, and the source of the PDF record attached to it
RecordSources(rec) ==
    SourcesSeen(rec)
      \cup (IF rec["pdf_analysis"].t = "dict" THEN {rec["pdf_analysis"].l[1]["source"].s}
            ELSE {})

\* the unified records of call i that were formed from inputs of two or more
\* distinct sources
MultiSource(i) ==
    { j \in DOMAIN UnifiedRecords(i) : Cardinality(RecordSources(UnifiedRecords(i)[j])) >= 2 }

\* C21: the cross-reference count a driver reports (cross_references of
\* cross_reference_data, multi_source_items of the Oslo report) equals the
\* number of unified records formed from inputs of two or more distinct
\* sources; a record merged from two regulatory-plan sources is counted.
C21_CrossReferenceCount ==
    \A i \in DOMAIN results :
        results[i].xref.exc = "" =>
            /\ system = "integrated" =>
                  results[i].xref.cross_references = Cardinality(MultiSource(i))
            /\ (system = "oslo" /\ calls[i] = "generate_oslo_report") =>
                  results[i].report.multi_source_items = Cardinality(MultiSource(i))

\* the records at the addresses xs, written out as they are now
StoredNow(xs) == [n \in DOMAIN xs |-> DeepDict(xs[n], dheap, lheap)]

\* n copies of the list xs, one after the other
RECURSIVE Copies(_, _)
Copies(xs, n) == IF n = 0 THEN <<>> ELSE xs \o Copies(xs, n - 1)

\* C24: the reconciliation pass has no effect on the stored raw records:
\* after every call each stored batch (the dicts and their list values) is
\* as the collectors returned it.
C24_RawRecordsUnchanged ==
    /\ system = "oslo" =>
          /\ oslo_data.origo_datasets # <<>> =>
                StoredNow(oslo_data.origo_datasets) = world.origo
          /\ StoredNow(oslo_data.reguleringsplaner)
                = Copies(world.geonorge, CallCount("integrate_oslo_data"))
          /\ oslo_data.pdf_documents # <<>> =>
                StoredNow(oslo_data.pdf_documents) = process_oslo_pdf_documents(world.docs)
    /\ system = "integrated" =>
          /\ StoredNow(integrated_data.regulatory_plans)
                = Copies(world.geonorge \o world.origo, CallCount("integrate_data_sources"))
          /\ StoredNow(integrated_data.pdf_analyses)
                = Copies(process_pdf_files(world.docs), CallCount("integrate_data_sources"))

\* hash() of this process, as far as it was applied
HashTable == [x \in HashedSoFar |-> HashSoFar(x)]

\* the key the driver gives the collected record rec, h being hash()
KeyWith(rec, h) ==
    IF system = "oslo" THEN generate_oslo_key(AsDict(rec), rec, h).key
    ELSE generate_plan_key(AsDict(rec)).key

\* how many records the stored batches hold
StoredCount ==
    IF system = "oslo" THEN Len(AllOsloData(oslo_data))
    ELSE Len(integrated_data.regulatory_plans)

\* C26: in every driver result the unified records correspond one to one to
\* the distinct keys of the folded records: as many unified records as
\* distinct keys, at most as many as input records (total_oslo_items <=
\* total_oslo_sources), and every folded record under exactly one of them.
C26_OnePerKey ==
    (\E k \in DOMAIN calls : calls[k] \in Integrations) =>
    \A fo \in {FoldOrder} : \A h \in {HashTable} :
    \A ks \in { [n \in DOMAIN fo |-> KeyWith(fo[n], h)] } :
    \A i \in DOMAIN results :
        (results[i].xref.exc = "" /\ IntegrationsUpTo(i) >= 1) =>
            /\ Len(UnifiedRecords(i)) = Len(results[i].xref.keys)
            /\ Len(UnifiedRecords(i)) = Cardinality(Range(ks))
            /\ Range(results[i].xref.keys) = Range(ks)
            /\ Len(UnifiedRecords(i)) <= StoredCount
            /\ \A n \in DOMAIN ks :
                  Cardinality({ j \in DOMAIN results[i].xref.keys :
                                  results[i].xref.keys[j] = ks[n] }) = 1
            /\ system = "oslo" =>
                  /\ results[i].xref.total_oslo_items = Len(UnifiedRecords(i))
                  /\ results[i].xref.total_oslo_items
                       <= results[i].xref.source_breakdown.total_oslo_sources

\* a pass folded three records into two unified records
C26_Witness ==
    \E i \in DOMAIN results :
        /\ results[i].xref.exc = ""
        /\ IntegrationsUpTo(i) >= 1
        /\ Len(FoldOrder) = 3
        /\ Len(UnifiedRecords(i)) = 2

\* the collected plans, in fold order
CollectedPlans == world.geonorge \o world.origo

\* C27: in every result of cross_reference_data the PDF analyses neither
\* create nor remove a unified record: the unified plan keys are the
\* distinct keys of the regulatory plans whatever the PDF analyses are; a
\* unified plan holds only a collected PDF analysis that matches it, so an
\* analysis that matches no plan (any analysis with an empty plan_id among
\* them) is in no unified record; cross_references is at most the number
\* of unified plans.
C27_PdfNeverAddsPlans ==
    system = "integrated" =>
    \A ks \in { [n \in DOMAIN CollectedPlans |->
                   generate_plan_key(AsDict(CollectedPlans[n])).key] } :
    \A i \in DOMAIN results :
        (results[i].xref.exc = "" /\ IntegrationsUpTo(i) >= 1) =>
            /\ Range(results[i].xref.keys) = Range(ks)
            /\ Len(UnifiedRecords(i)) = Cardinality(Range(ks))
            /\ \A j \in DOMAIN UnifiedRecords(i) :
                  UnifiedRecords(i)[j]["pdf_analysis"].t # "absent" =>
                      \E pdf \in Range(CollectedAnalyses) :
                          /\ HasAnalysis(UnifiedRecords(i)[j], pdf)
                          /\ Matches(pdf, UnifiedRecords(i)[j])
                          /\ pdf["plan_id"].t = "str" /\ pdf["plan_id"].s # <<>>
            /\ results[i].xref.cross_references <= Len(UnifiedRecords(i))

\* a pass over two plans and two PDF analyses, one with no plan_id and one
\* that matches one of the plans: two unified plans, one cross-reference
C27_Witness ==
    /\ system = "integrated"
    /\ \E i \in DOMAIN results :
         /\ results[i].xref.exc = ""
         /\ IntegrationsUpTo(i) >= 1
         /\ Len(CollectedAnalyses) = 2
         /\ \E n \in DOMAIN CollectedAnalyses : CollectedAnalyses[n]["plan_id"] = DNone
         /\ Len(UnifiedRecords(i)) = 2
         /\ results[i].xref.cross_references = 1

\* the positions in the collected PDF analyses of those that match rec
MatchingAnalyses(rec) ==
    { n \in DOMAIN CollectedAnalyses : Matches(CollectedAnalyses[n], rec) }

\* C28: a unified plan that several PDF analyses match holds, as its
\* pdf_analysis, the last of them in the order of pdf_analyses: each later
\* match overwrites the earlier one.
C28_LastAnalysisWins ==
    \A i \in DOMAIN results :
        (system = "integrated" /\ results[i].xref.exc = "" /\ IntegrationsUpTo(i) >= 1) =>
            \A j \in DOMAIN UnifiedRecords(i) :
                Cardinality(MatchingAnalyses(UnifiedRecords(i)[j])) >= 2 =>
                    \E n \in MatchingAnalyses(UnifiedRecords(i)[j]) :
                        /\ \A k \in MatchingAnalyses(UnifiedRecords(i)[j]) : k <= n
                        /\ UnifiedRecords(i)[j]["pdf_analysis"].l = <<CollectedAnalyses[n]>>

\* the analyses of c.pdf and a.pdf, in this order, both matched a plan, and
\* the plan holds that of a.pdf
C28_Witness ==
    /\ system = "integrated"
    /\ Len(world.docs) = 2 /\ world.docs[1].path = F_c /\ world.docs[2].path = F_a
    /\ \E i \in DOMAIN results :
         /\ results[i].xref.exc = ""
         /\ IntegrationsUpTo(i) >= 1
         /\ \E j \in DOMAIN UnifiedRecords(i) :
              /\ MatchingAnalyses(UnifiedRecords(i)[j]) = {1, 2}
              /\ UnifiedRecords(i)[j]["pdf_analysis"].l[1]["file_path"] = DStr(F_a)

----------------------------------------------------------------------------
(* Claims about repeated integration runs (SpecRepeat) *)

\* a record as its collector wrote it: without the two attributes a pass
\* may write into a stored record
AsCollected(rec) == [rec EXCEPT !["pdf_analysis"] = DAbsent, !["oslo_areas"] = DAbsent]

\* the records at the addresses xs are n copies of the batch
HoldsCopies(xs, batch, n) ==
    [k \in DOMAIN xs |-> AsCollected(StoredNow(xs)[k])]
        = Copies([k \in DOMAIN batch |-> AsCollected(batch[k])], n)

\* how many records of the batch have the source tag
TaggedIn(batch, tag) == Cardinality({ k \in DOMAIN batch : batch[k]["source"] = DStr(tag) })

\* C29: after n integration runs on one instance, the collectors returning
\* the same batches, reguleringsplaner holds n copies of the Geonorge batch
\* and origo_datasets and pdf_documents one copy each; regulatory_plans and
\* pdf_analyses of the integrated system hold n copies; the source summary
\* of every pass counts the records stored then; and every pass after the
\* first run returns as many unified records as the first.
C29_BatchesAccumulate ==
    /\ system = "oslo" =>
          \A n \in {CallCount("integrate_oslo_data")} :
              /\ HoldsCopies(oslo_data.reguleringsplaner, world.geonorge, n)
              /\ HoldsCopies(oslo_data.origo_datasets, world.origo, IF n = 0 THEN 0 ELSE 1)
              /\ HoldsCopies(oslo_data.pdf_documents,
                             process_oslo_pdf_documents(world.docs), IF n = 0 THEN 0 ELSE 1)
    /\ system = "integrated" =>
          \A n \in {CallCount("integrate_data_sources")} :
              /\ HoldsCopies(integrated_data.regulatory_plans, CollectedPlans, n)
              /\ HoldsCopies(integrated_data.pdf_analyses, CollectedAnalyses, n)
    /\ \A i \in DOMAIN results :
          results[i].xref.exc = "" =>
              \A n \in {IntegrationsUpTo(i)} :
                  /\ system = "oslo" =>
                        /\ results[i].xref.source_breakdown.geonorge_oslo
                             = n * Len(world.geonorge)
                        /\ results[i].xref.source_breakdown.origo_datasets
                             = (IF n = 0 THEN 0 ELSE Len(world.origo))
                        /\ results[i].xref.source_breakdown.oslo_pdfs
                             = (IF n = 0 THEN 0
                                ELSE Len(process_oslo_pdf_documents(world.docs)))
                  /\ system = "integrated" =>
                        /\ results[i].xref.sources_summary.geonorge
                             = n * TaggedIn(CollectedPlans, SRC_geonorge)
                        /\ results[i].xref.sources_summary.oslo_origo
                             = n * TaggedIn(CollectedPlans, SRC_oslo_origo)
                        /\ results[i].xref.sources_summary.pdf_analyses
                             = n * Len(CollectedAnalyses)
    /\ \A i, j \in DOMAIN results :
          ( /\ results[i].xref.exc = "" /\ results[j].xref.exc = ""
            /\ IntegrationsUpTo(i) >= 1 /\ IntegrationsUpTo(j) >= 1 )
          => Len(UnifiedRecords(i)) = Len(UnifiedRecords(j))

\* the Oslo integration ran three times on a Geonorge batch of one record:
\* three copies stored, one unified record after the first run and after
\* the third
C29_Witness ==
    /\ system = "oslo"
    /\ Len(world.geonorge) = 1 /\ world.origo = <<>> /\ world.docs = <<>>
    /\ CallCount("integrate_oslo_data") = 3
    /\ Len(oslo_data.reguleringsplaner) = 3
    /\ \E i, j \in DOMAIN results :
         /\ IntegrationsUpTo(i) = 1 /\ IntegrationsUpTo(j) = 3
         /\ results[i].xref.exc = "" /\ results[j].xref.exc = ""
         /\ Len(UnifiedRecords(i)) = 1 /\ Len(UnifiedRecords(j)) = 1
         /\ results[j].xref.source_breakdown.geonorge_oslo = 3

----------------------------------------------------------------------------
(* Claims about the relevance classifier (SpecClassify) *)

\* the name a occurs in the text t at some position
OccursIn(a, t) ==
    \E k \in 1..Len(t) :
        /\ k + Len(a) - 1 <= Len(t)
        /\ \A m \in 1..Len(a) : t[k + m - 1] = a[m]

\* the position of the name a in the configured list xs
PositionIn(a, xs) == CHOOSE i \in DOMAIN xs : xs[i] = a

\* C22: for every text, the matched areas the classifier returns are exactly
\* the configured area names that occur in the lowercased text, in the order
\* of the configured list and each once; no other name is returned.
C22_MatchedAreas ==
    ccontent.done =>
        /\ \A i \in DOMAIN ccontent.ret.oslo_areas :
              ccontent.ret.oslo_areas[i] \in Range(Omrader)
        /\ \A a \in Range(Omrader) :
              OccursIn(a, Lower(cdoc.text)) <=> a \in Range(ccontent.ret.oslo_areas)
        /\ \A i, j \in DOMAIN ccontent.ret.oslo_areas :
              i < j => PositionIn(ccontent.ret.oslo_areas[i], Omrader)
                         < PositionIn(ccontent.ret.oslo_areas[j], Omrader)

\* a text that names two areas in the reverse of their configured order was
\* classified
C22_Witness ==
    /\ ccontent.done
    /\ cdoc.text = X_frogner_og_sentrum
    /\ ccontent.ret.oslo_areas = <<A_sentrum, A_frogner>>

\* some configured area name or Oslo term occurs in the lowercased text
SomeNameOccurs(text) ==
    \E a \in Range(Omrader) \cup Range(oslo_spesifikk) \cup Range(planterminologi) :
        OccursIn(a, Lower(text))

\* C23: a text is relevant (relevance score above 0, analysis marked
\* oslo_relevant) exactly when some configured area name or Oslo term occurs
\* in the lowercased text; a text with no match gets no plan_id, and its
\* file is left out of the PDF batch, which holds the files with a match.
C23_RelevantIffMatch ==
    /\ ccontent.done =>
          /\ ccontent.ret.oslo_relevance_score > 0 <=> SomeNameOccurs(cdoc.text)
          /\ ~SomeNameOccurs(cdoc.text) => ccontent.ret.plan_id = DNone
    /\ cpdf.done =>
          /\ cpdf.ret.oslo_relevant <=> SomeNameOccurs(cdoc.text)
          /\ ~SomeNameOccurs(cdoc.text) => cpdf.ret.plan_id = DNone
    /\ cbatch.done =>
          /\ cbatch.ret # <<>> <=> SomeNameOccurs(cdoc.text)
          /\ \A i \in DOMAIN cbatch.ret : cbatch.ret[i]["file_path"] = DStr(cdoc.path)

\* a text without any match, in which a plan id could be found, went through
\* the classifier and the collector: no plan id, not relevant, not collected
C23_Witness ==
    /\ cdoc.text = X_bergen_havn
    /\ cdoc.plan_id = DStr(P_uuid)
    /\ ccontent.done /\ ccontent.ret.plan_id = DNone
    /\ cpdf.done /\ ~cpdf.ret.oslo_relevant
    /\ cbatch.done /\ cbatch.ret = <<>>

====
